---- MODULE Spec2Model ----
(***************************************************************************)
(* A model of the message-execution core of ref-fvm:                       *)
(*   - the gas checkpoints of fvm/src/syscalls/mod.rs                      *)
(*     (update_gas_available, charge_for_exec),                            *)
(*   - validate_message of fvm/src/executor/validator.rs,                  *)
(*   - the debug / rand / send syscall handlers and the checked binding.   *)
(* Each part has its own specification over the shared variables; the      *)
(* variables of the other parts stay at their initial values.              *)
(* The two binding tables of syscalls/mod.rs have a specification of their  *)
(* own, and so has the Hamt of ipld/hamt/src/hamt.rs.                       *)
(***************************************************************************)
EXTENDS Integers, Sequences, FiniteSets, TLC

(***************************************************************************)
(* Bounds of the model.                                                    *)
(***************************************************************************)
\* Width of the machine integer that stands for i64 (two's complement).
IntBits == 3
\* Largest gas limit (in milligas) an invocation of the gas-checkpoint
\* specification is opened with.
MaxGasLimit == 2
\* Number of charge_for_exec checkpoints followed in one invocation.
MaxCheckpoints == 2

I64_MAX == 2 ^ (IntBits - 1) - 1
I64_MIN == -(2 ^ (IntBits - 1))
I64 == I64_MIN .. I64_MAX

Max(a, b) == IF a >= b THEN a ELSE b
Min(a, b) == IF a <= b THEN a ELSE b

\* i64 saturating arithmetic: the result is clamped to the numeric bounds
\* of the type, not to zero.
Saturate(x) == Max(I64_MIN, Min(I64_MAX, x))
saturating_sub(a, b) == Saturate(a - b)
saturating_add(a, b) == Saturate(a + b)

VARIABLES
    \* ---- gas ledger of the kernel / call manager
    gas_limit,                 \* milligas the ledger was opened with
    gas_used,                  \* milligas charged so far
    \* ---- InvocationData (syscalls/mod.rs)
    avail_gas_global,          \* the sandbox register (wasm global, i64)
    last_milligas_available,   \* the host's shadow of the register
    \* ---- position and observations of the gas-checkpoint run
    gpc,                       \* "running" | "aborted"
    gabort,                    \* Abort returned by the last checkpoint
    cp,                        \* what the last charge_for_exec did
    exec_charged,              \* sum of the amounts charged as "wasm_exec"
    delta_sum,                 \* sum of the per-checkpoint deltas, each >= 0
    ncheckpoints,              \* charge_for_exec calls so far
    upd,                       \* what update_gas_available did, if it was the last step
    \* ---- validate_message (executor/validator.rs)
    vpc,                       \* "idle" | "in_tx" | "returned" | "done"
    vpath,                     \* the exit path validate_message took
    state,                     \* the machine's state tree, as the caller sees it
    tx_stack,                  \* snapshots of the open transaction scopes
    backtrace,                 \* the Call Manager's backtrace (exit codes of frames)
    invoke_result,             \* what cm.validate returned inside the scope
    ret,                       \* what validate_message returned
    failure_info,              \* the local failure_info of validate_message
    fin,                       \* what cm.finish() reported
    v_backtrace,               \* the local backtrace at the end of validate_message
    vghost,                    \* observations: state before / inside the scope, gas
    \* ---- syscall handlers (syscalls/debug.rs, rand.rs, mod.rs bindings)
    memory,                    \* the sandbox's linear memory (bytes)
    kernel,                    \* the kernel behind the handlers
    sys,                       \* the last syscall: its result and what it saw
    ncalls,                    \* syscalls made so far
    spc,                       \* "idle" | "running" | "crashed"
    \* ---- the two syscall surfaces (syscalls/mod.rs, bind_*_syscalls)
    m2_native,                 \* the build has the feature "m2-native"
    full_surface,              \* the linker bind_syscalls fills, and how far it is
    checked_surface,           \* the linker bind_checked_syscalls fills
    \* ---- the Hamt (ipld/hamt/src/hamt.rs)
    hamt,                      \* the Hamt: its root node and bit width
    blockstore,                \* the block store the Hamt owns
    hmap,                      \* the finite map the operations so far define
    hlast,                     \* the last operation: its result, the contents before
    hflush,                    \* the last flush: its Cid and the flushed Hamt
    loaded                     \* the Hamt the last load returned

gasvars == <<gas_limit, gas_used, avail_gas_global, last_milligas_available,
             gpc, gabort, cp, exec_charged, delta_sum, ncheckpoints, upd>>

valvars == <<vpc, vpath, state, tx_stack, backtrace, invoke_result, ret,
             failure_info, fin, v_backtrace, vghost>>

sysvars == <<memory, kernel, sys, ncalls, spc>>

bindvars == <<m2_native, full_surface, checked_surface>>

hamtvars == <<hamt, blockstore, hmap, hlast, hflush, loaded>>

vars == <<gasvars, valvars, sysvars, bindvars, hamtvars>>

(***************************************************************************)
(* Values of the model.                                                    *)
(***************************************************************************)
\* Bounds of the validation model.
\* Values the machine's state tree takes: 0 .. MaxState.
MaxState == 1
\* Frames the backtrace holds at most (nested sends that fail and are handled).
MaxFrames == 1
\* Largest field value of a GasSpec the actor returns.
MaxSpecField == 1

StateVals == 0 .. MaxState

\* const VALIDATION_GAS_LIMIT: i64 = i64::MAX
VALIDATION_GAS_LIMIT == I64_MAX

\* Exit codes: OK, an actor's own error code, and the out-of-gas system code.
ExitOK == 0
ExitUser == 16
ExitOutOfGas == 7
is_success(code) == code = ExitOK

\* ---- blocks and the encoding of a GasSpec
NoBlock == [some |-> FALSE, bytes |-> <<>>]
SomeBlock(b) == [some |-> TRUE, bytes |-> b]

GasSpecs == [gas_limit : 0 .. MaxSpecField, gas_premium : 0 .. MaxSpecField]
NoGasSpec == [gas_limit |-> -1, gas_premium |-> -1]

\* CBOR of a GasSpec: the header of a 2-element array, then the two fields
\* as small unsigned integers.
CborArray2 == 130
marshal_cbor(g) == <<CborArray2, g.gas_limit, g.gas_premium>>

\* deserialize::<GasSpec>(): Ok with the decoded value, or an error.
deserialize_ok(bytes) ==
    /\ Len(bytes) = 3
    /\ bytes[1] = CborArray2
    /\ bytes[2] \in 0 .. 23
    /\ bytes[3] \in 0 .. 23
deserialize(bytes) ==
    IF deserialize_ok(bytes)
    THEN [gas_limit |-> bytes[2], gas_premium |-> bytes[3]]
    ELSE NoGasSpec

\* Return payloads an actor produces: none, empty, a well-formed GasSpec, an
\* array of the wrong length, a truncated one.
Payloads ==
    {NoBlock, SomeBlock(<<>>), SomeBlock(<<CborArray2 - 1, 0>>),
     SomeBlock(<<CborArray2, 0>>)}
    \cup {SomeBlock(marshal_cbor(g)) : g \in GasSpecs}

\* ---- InvocationResult and ExecutionError
Return(blk) == [tag |-> "Return", code |-> ExitOK, data |-> blk, err |-> "-"]
Failure(c)  == [tag |-> "Failure", code |-> c, data |-> NoBlock, err |-> "-"]
ExecErr(e)  == [tag |-> "Err", code |-> -1, data |-> NoBlock, err |-> e]
NoResult    == [tag |-> "-", code |-> -1, data |-> NoBlock, err |-> "-"]

ExecutionErrors == {"OutOfGas", "Fatal", "Syscall"}

\* ---- what validate_message returns: Ok(GasSpec) or an anyhow error, which
\* carries a message and nothing else.
RetOk(g)   == [tag |-> "Ok", value |-> g, msg |-> "-"]
RetErr(m)  == [tag |-> "Err", value |-> NoGasSpec, msg |-> m]
NoRet      == [tag |-> "-", value |-> NoGasSpec, msg |-> "-"]

NoFailureInfo == [some |-> FALSE, backtrace |-> <<>>]
MessageBacktrace(bt) == [some |-> TRUE, backtrace |-> bt]

NoCheckpoint == [done |-> FALSE, fresh |-> FALSE, consecutive |-> FALSE]
NoUpdate == [fresh |-> FALSE, ok |-> FALSE, avail |-> 0, used_before |-> 0]
NoFinish == [done |-> FALSE, gas_used |-> 0, backtrace |-> <<>>]
NoGhost == [opened |-> FALSE, pre_state |-> 0, inner_state |-> 0,
            tx_charged |-> 0, validate_calls |-> 0, finish_calls |-> 0,
            cm_opened |-> 0, lookup |-> "-", machine |-> "executor",
            calls |-> <<>>]

ValIdle ==
    /\ vpc = "idle"
    /\ vpath = "-"
    /\ tx_stack = <<>>
    /\ backtrace = <<>>
    /\ invoke_result = NoResult
    /\ ret = NoRet
    /\ failure_info = NoFailureInfo
    /\ fin = NoFinish
    /\ v_backtrace = <<>>
    /\ vghost = NoGhost

\* Bounds of the syscall model.
\* Size of the sandbox memory, in bytes.
MemSize == 2
\* Syscalls followed in one run.
MaxCalls == 2

\* Bytes the memory holds: an ASCII letter, and a byte no UTF-8 text contains.
Bytes == {65, 255}

NoSyscall == [name |-> "-", args |-> <<>>, res |-> "-", value |-> <<>>,
              oob |-> FALSE,
              checked |-> FALSE, handler_ran |-> FALSE, debug_reads |-> <<>>,
              mem_before |-> <<>>, mem_after |-> <<>>,
              kernel_before |-> <<>>, kernel_after |-> <<>>]

Kernels ==
    [debug_enabled : BOOLEAN, caller_is_self : BOOLEAN, log : {<<>>},
     artifacts : {<<>>}, rand_calls : {<<>>}, sends : {<<>>}]

SysIdle ==
    /\ memory = <<>>
    /\ kernel = [debug_enabled |-> FALSE, caller_is_self |-> FALSE,
                 log |-> <<>>, artifacts |-> <<>>, rand_calls |-> <<>>,
                 sends |-> <<>>]
    /\ sys = NoSyscall
    /\ ncalls = 0
    /\ spc = "idle"

\* Bounds of the Hamt model.
\* Keys are 1 .. MaxKey.
MaxKey == 4
\* Operations followed after the first flush of a run.
MaxOpsAfterFlush == 0

\* Values stored under the keys.
Vals == {1, 2}
\* Length of a key's hash, in bits.
HashLen == 4
\* MAX_ARRAY_WIDTH: the key-value pairs a bucket holds before it splits.
MAX_ARRAY_WIDTH == 3

NoHamtOp == [op |-> "-", key |-> 0, val |-> 0, result |-> 0, before |-> <<>>,
             cid |-> <<>>, root |-> <<>>]
NoFlush == [count |-> 0, after |-> 0, cid |-> <<>>, hamt |-> <<>>, map |-> <<>>]
NoLoad == [done |-> FALSE, res |-> "-", hamt |-> <<>>, flushed |-> <<>>]

HamtIdle ==
    /\ hamt = <<>>
    /\ blockstore = {}
    /\ hmap = <<>>
    /\ hlast = NoHamtOp
    /\ hflush = NoFlush
    /\ loaded = NoLoad

\* A linker nothing was bound to yet.
NoSurface == [linker |-> {}, pc |-> 0, res |-> "-"]

BindIdle ==
    /\ m2_native = FALSE
    /\ full_surface = NoSurface
    /\ checked_surface = NoSurface

GasIdle ==
    /\ avail_gas_global = 0
    /\ last_milligas_available = 0
    /\ gpc = "idle"
    /\ gabort = "None"
    /\ cp = NoCheckpoint
    /\ exec_charged = 0
    /\ delta_sum = 0
    /\ ncheckpoints = 0
    /\ upd = NoUpdate

(***************************************************************************)
(* The host ledger (kernel gas tracker).                                   *)
(***************************************************************************)
\* Kernel::gas_available(): what is left of the limit, in milligas.
gas_available(limit, used) == saturating_sub(limit, used)

\* Kernel::charge_gas(name, amount): the ledger is charged `amount`; a
\* charge that would take the total past the limit is an OutOfGas error.
charge_gas_result(limit, used, amount) ==
    IF saturating_add(used, amount) > limit THEN "OutOfGas" ELSE "Ok"

\* The ledger total after charge_gas. On OutOfGas what was charged before
\* stands: the total either stays or is set to the limit.
charge_gas_used(limit, used, amount) ==
    IF saturating_add(used, amount) > limit
    THEN {used, limit}
    ELSE {saturating_add(used, amount)}

\* Abort::from_error_as_fatal: OutOfGas stays OutOfGas, a Fatal error stays
\* Fatal, and a syscall error is escalated to Fatal.
from_error_as_fatal(e) ==
    CASE e = "OutOfGas" -> "OutOfGas"
      [] e = "Fatal"    -> "Fatal"
      [] OTHER          -> "Fatal"

(***************************************************************************)
(* Gas checkpoints.                                                        *)
(***************************************************************************)
\* charge_for_exec, the amount: last_milligas.saturating_sub(milligas_available)
milligas_used(last_milligas, milligas_available) ==
    saturating_sub(last_milligas, milligas_available)

\* (a variant that reports every ledger error as Fatal)
charge_for_exec_result_all_fatal(res) ==
    IF res = "Ok" THEN "None" ELSE "Fatal"

\* charge_for_exec, the result: Ok, or the ledger's error through
\* Abort::from_error_as_fatal.
charge_for_exec_result(res) ==
    IF res = "Ok" THEN "None" ELSE from_error_as_fatal(res)

InitGas ==
    /\ gas_limit \in 0 .. MaxGasLimit
    /\ gas_used = 0
    /\ avail_gas_global = 0
    /\ last_milligas_available = 0
    /\ gpc = "running"
    /\ gabort = "None"
    /\ cp = NoCheckpoint
    /\ exec_charged = 0
    /\ delta_sum = 0
    /\ ncheckpoints = 0
    /\ upd = NoUpdate
    /\ ValIdle
    /\ state = 0
    /\ SysIdle
    /\ BindIdle
    /\ HamtIdle

\* (a variant of update_gas_available that sets the register and does not
\* record the value)
last_not_recorded(set_ok, avail_milligas, last_milligas) == last_milligas

\* update_gas_available, line 60: the value written to the register is
\* recorded; a failed write returns before that.
last_after_update(set_ok, avail_milligas, last_milligas) ==
    IF set_ok THEN avail_milligas ELSE last_milligas

\* update_gas_available: the ledger's gas_available is written to the
\* register and recorded as last_milligas_available. A write the global
\* refuses is Abort::Fatal.
update_gas_available ==
    /\ gpc = "running"
    /\ \E set_ok \in BOOLEAN :
         LET avail_milligas == gas_available(gas_limit, gas_used)
         IN /\ avail_gas_global' = IF set_ok THEN avail_milligas
                                             ELSE avail_gas_global
            /\ last_milligas_available' =
                   last_after_update(set_ok, avail_milligas, last_milligas_available)
            /\ gabort' = IF set_ok THEN "None" ELSE "Fatal"
            /\ gpc' = IF set_ok THEN "running" ELSE "aborted"
            /\ upd' = [fresh |-> TRUE, ok |-> set_ok, avail |-> avail_milligas,
                       used_before |-> gas_used]
    /\ cp' = [cp EXCEPT !.fresh = FALSE]
    /\ UNCHANGED <<gas_limit, gas_used, exec_charged, delta_sum, ncheckpoints>>
    /\ UNCHANGED <<valvars, sysvars, bindvars, hamtvars>>

\* The sandboxed program writes its register: it has the global mutable and
\* nothing but its own instrumentation keeps it from storing any i64.
SandboxWrite ==
    /\ gpc = "running"
    /\ \E v \in I64 :
         /\ v # avail_gas_global
         /\ avail_gas_global' = v
    /\ upd' = NoUpdate
    /\ cp' = [cp EXCEPT !.fresh = FALSE]
    /\ UNCHANGED <<gas_limit, gas_used, last_milligas_available, gpc, gabort,
                   exec_charged, delta_sum, ncheckpoints>>
    /\ UNCHANGED <<valvars, sysvars, bindvars, hamtvars>>

\* (a variant of charge_for_exec that records the register only once the
\* ledger has accepted the charge)
last_after_successful_charge(milligas_available, last_milligas, res) ==
    IF res = "Ok" THEN milligas_available ELSE last_milligas

\* charge_for_exec, line 80: mem::replace stores the register's value as
\* last_milligas_available before the ledger is charged (lines 85-88), so
\* the ledger's answer has no part in it.
last_after_charge(milligas_available, last_milligas, res) == milligas_available

\* charge_for_exec: read the register, replace the shadow by it, charge the
\* ledger the difference as "wasm_exec".
charge_for_exec ==
    /\ gpc = "running"
    /\ ncheckpoints < MaxCheckpoints
    /\ LET milligas_available == avail_gas_global
           last_milligas      == last_milligas_available
           used               == milligas_used(last_milligas, milligas_available)
           res                == charge_gas_result(gas_limit, gas_used, used)
       IN /\ last_milligas_available' =
                 last_after_charge(milligas_available, last_milligas, res)
          /\ gas_used' \in charge_gas_used(gas_limit, gas_used, used)
          /\ gabort' = charge_for_exec_result(res)
          /\ gpc' = IF res = "Ok" THEN "running" ELSE "aborted"
          /\ cp' = [done |-> TRUE, last |-> last_milligas,
                    register |-> milligas_available, charged |-> used,
                    used_before |-> gas_used,
                    remaining |-> gas_available(gas_limit, gas_used),
                    res |-> res, fresh |-> TRUE, consecutive |-> cp.fresh,
                    prev_charged |-> IF cp.fresh THEN cp.charged ELSE 0,
                    prev_last |-> IF cp.fresh THEN cp.last ELSE 0]
          /\ exec_charged' = exec_charged + used
          /\ delta_sum' = delta_sum + Saturate(Max(0, last_milligas - milligas_available))
    /\ ncheckpoints' = ncheckpoints + 1
    /\ upd' = NoUpdate
    /\ UNCHANGED <<gas_limit, avail_gas_global>>
    /\ UNCHANGED <<valvars, sysvars, bindvars, hamtvars>>

NextGas ==
    \/ update_gas_available
    \/ SandboxWrite
    \/ charge_for_exec

SpecGas == InitGas /\ [][NextGas]_vars

(***************************************************************************)
(* validate_message.                                                       *)
(***************************************************************************)
\* ---- the Call Manager
\* InvocationResult::exit_code
exit_code(res) == IF res.tag = "Return" THEN ExitOK ELSE res.code

\* with_transaction(f): the scope is rolled back when f returns an error or
\* a non-success exit code, and committed otherwise.
with_transaction_reverts(res) ==
    \/ res.tag = "Err"
    \/ ~is_success(exit_code(res))
with_transaction(snapshot, inner, res) ==
    IF with_transaction_reverts(res) THEN snapshot ELSE inner

\* (a variant that calls cm.validate outside any transaction scope)
validate_scope_no_transaction(snapshot, inner, res) == inner

\* validate_message, lines 93-99: cm.validate runs inside with_transaction.
validate_scope(snapshot, inner, res) == with_transaction(snapshot, inner, res)

\* lines 100-102: gas_used and backtrace are those cm.finish() reports.
finish(used, bt) == [done |-> TRUE, gas_used |-> used, backtrace |-> bt]

\* lines 113-115: the returned block's bytes, or empty bytes when there is none.
return_data(return_value) ==
    IF return_value.some THEN return_value.bytes ELSE <<>>

\* (a variant that does not clear the backtrace on Return)
backtrace_kept_on_return(res, bt) == bt

\* lines 109-128: the backtrace after the match on the invocation result
\* (cleared on Return).
backtrace_after_match(res, bt) == IF res.tag = "Return" THEN <<>> ELSE bt

\* lines 109-128: the match yields Ok(return_data) or Err(()).
match_is_ok(res) == res.tag = "Return"

\* (a variant without the check of the exit code: every Failure goes on to
\* the match's Err(()))
failure_never_status_ok(res) == FALSE

\* lines 120-123: Failure with a success exit code returns at once.
fails_with_status_ok(res) == res.tag = "Failure" /\ is_success(res.code)

\* lines 130-134
failure_info_of(bt, result_is_ok) ==
    IF bt = <<>> \/ result_is_ok THEN NoFailureInfo ELSE MessageBacktrace(bt)

\* lines 136-140
validate_ret(res) ==
    IF ~match_is_ok(res)
    THEN RetErr("actor failed to validate with TODO")
    ELSE IF deserialize_ok(return_data(res.data))
         THEN RetOk(deserialize(return_data(res.data)))
         ELSE RetErr("failed to unmarshall return data from validate")

gas_unchanged_by_validate ==
    UNCHANGED <<avail_gas_global, last_milligas_available, gpc, gabort, cp,
                exec_charged, delta_sum, ncheckpoints, upd, sysvars, bindvars,
                hamtvars>>

InitValidate ==
    /\ ValIdle
    /\ GasIdle
    /\ state \in StateVals
    /\ gas_limit = 0
    /\ gas_used = 0
    /\ SysIdle
    /\ BindIdle
    /\ HamtIdle

\* (a variant that goes on with a default actor id when the sender is absent)
begin_path_default_sender(lookup, params_ok) ==
    CASE lookup = "Err" -> "lookup_failed"
      [] ~params_ok     -> "params_failed"
      [] OTHER          -> "invoked"

\* validate_message, lines 47-93: where the function is after the sender
\* lookup and the encoding of the parameters. A lookup error and an absent
\* sender return at once (lines 51, 55-59), a failed encoding finishes the
\* Call Manager (line 87), otherwise cm.validate is called.
begin_path(lookup, params_ok) ==
    CASE lookup = "Err"  -> "lookup_failed"
      [] lookup = "None" -> "sender_not_found"
      [] ~params_ok      -> "params_failed"
      [] OTHER           -> "invoked"

\* (a variant that returns from the failed encoding without finishing the
\* Call Manager)
params_failed_calls_no_finish == <<"new">>

\* lines 65-87: the calls made on the Call Manager when the parameters fail to
\* encode: it is created and finished, nothing else.
params_failed_calls == <<"new", "finish">>

\* lines 65-96: the calls made up to the validation entrypoint.
invoked_calls == <<"new", "with_transaction", "validate">>

\* (a variant that finishes the Call Manager inside the transaction scope)
end_calls_finish_in_scope == <<"finish", "with_transaction_returned">>

\* lines 99-100: with_transaction returns, then cm.finish() is called.
end_calls == <<"with_transaction_returned", "finish">>

\* Occurrences of a call in a sequence of calls.
count_calls(calls, c) == Cardinality({i \in DOMAIN calls : calls[i] = c})

\* Who owns the machine after a sequence of calls: CallManager::new takes it
\* (line 66), finish() gives it back (lines 87, 100-103).
machine_after(calls) ==
    IF count_calls(calls, "new") > count_calls(calls, "finish")
    THEN "call_manager" ELSE "executor"

\* validate_message up to the call of cm.validate (lines 44-93): the sender
\* lookup, the new Call Manager, the encoding of the parameters, the opening
\* of the transaction scope.
ValidateBegin ==
    /\ vpc = "idle"
    /\ \E lookup \in {"Some", "None", "Err"}, params_ok \in BOOLEAN :
         LET path == begin_path(lookup, params_ok)
         IN
         CASE path = "lookup_failed" ->
                /\ ret' = RetErr("failed to lookup actor")
                /\ vpc' = "done"
                /\ vpath' = path
                /\ vghost' = [vghost EXCEPT !.lookup = lookup,
                                            !.pre_state = state]
                /\ UNCHANGED <<gas_limit, gas_used, tx_stack, fin>>
           [] path = "sender_not_found" ->
                /\ ret' = RetErr("TODO")
                /\ vpc' = "done"
                /\ vpath' = path
                /\ vghost' = [vghost EXCEPT !.lookup = lookup,
                                            !.pre_state = state]
                /\ UNCHANGED <<gas_limit, gas_used, tx_stack, fin>>
           [] path = "params_failed" ->
                \* (Err(ExecutionError::OutOfGas), cm.finish().1)
                /\ gas_limit' = VALIDATION_GAS_LIMIT
                /\ gas_used' = 0
                /\ fin' = finish(0, <<>>)
                /\ ret' = RetErr("out of gas")
                /\ vpc' = "done"
                /\ vpath' = path
                /\ vghost' = [vghost EXCEPT
                       !.cm_opened = @ + count_calls(params_failed_calls, "new"),
                       !.finish_calls = @ + count_calls(params_failed_calls, "finish"),
                       !.validate_calls = @ + count_calls(params_failed_calls, "validate"),
                       !.calls = @ \o params_failed_calls,
                       !.machine = machine_after(vghost.calls \o params_failed_calls),
                       !.lookup = lookup,
                       !.pre_state = state,
                       !.inner_state = state]
                /\ UNCHANGED tx_stack
           [] OTHER ->
                /\ gas_limit' = VALIDATION_GAS_LIMIT
                /\ gas_used' = 0
                /\ tx_stack' = <<state>>
                /\ vpc' = "in_tx"
                /\ vpath' = path
                /\ vghost' = [vghost EXCEPT !.cm_opened = @ + 1,
                                            !.validate_calls = @ + 1,
                                            !.calls = @ \o invoked_calls,
                                            !.machine = machine_after(vghost.calls \o invoked_calls),
                                            !.opened = TRUE,
                                            !.lookup = lookup,
                                            !.pre_state = state,
                                            !.inner_state = state]
                /\ UNCHANGED <<ret, fin>>
    /\ UNCHANGED <<state, backtrace, invoke_result, failure_info, v_backtrace>>
    /\ gas_unchanged_by_validate

\* ---- what the invoked actor does inside the scope (the Call Manager and
\* the actor, as seen from validate_message)

\* The actor writes its state.
ActorMutate ==
    /\ vpc = "in_tx"
    /\ \E s \in StateVals : s # state /\ state' = s
    /\ UNCHANGED <<gas_limit, gas_used, vpc, vpath, tx_stack, backtrace,
                   invoke_result, ret, failure_info, fin, v_backtrace, vghost>>
    /\ gas_unchanged_by_validate

\* Work is charged to the ledger. Running out of gas aborts the invocation
\* with the out-of-gas exit code; every open scope unwinds.
ActorChargeGas ==
    /\ vpc = "in_tx"
    /\ \E amount \in {1, 2} :
         LET res == charge_gas_result(gas_limit, gas_used, amount)
         IN /\ gas_used' \in charge_gas_used(gas_limit, gas_used, amount)
            /\ IF res = "Ok"
               THEN /\ vghost' = [vghost EXCEPT !.tx_charged = gas_used']
                    /\ UNCHANGED <<vpc, tx_stack, backtrace, invoke_result>>
               ELSE /\ vpc' = "returned"
                    /\ tx_stack' = <<tx_stack[1]>>
                    /\ backtrace' = <<ExitOutOfGas>>
                    /\ invoke_result' = Failure(ExitOutOfGas)
                    /\ vghost' = [vghost EXCEPT !.inner_state = state,
                                                !.tx_charged = gas_used']
    /\ UNCHANGED <<gas_limit, vpath, state, ret, failure_info, fin, v_backtrace>>
    /\ gas_unchanged_by_validate

\* A nested send opens a frame and a scope of its own.
NestedSend ==
    /\ vpc = "in_tx"
    /\ Len(tx_stack) = 1
    /\ Len(backtrace) < MaxFrames
    /\ tx_stack' = Append(tx_stack, state)
    /\ UNCHANGED <<gas_limit, gas_used, vpc, vpath, state, backtrace,
                   invoke_result, ret, failure_info, fin, v_backtrace, vghost>>
    /\ gas_unchanged_by_validate

\* The nested call returns: its scope is committed into the parent's.
NestedReturn ==
    /\ vpc = "in_tx"
    /\ Len(tx_stack) > 1
    /\ tx_stack' = SubSeq(tx_stack, 1, Len(tx_stack) - 1)
    /\ state' = with_transaction(tx_stack[Len(tx_stack)], state, Return(NoBlock))
    /\ UNCHANGED <<gas_limit, gas_used, vpc, vpath, backtrace, invoke_result,
                   ret, failure_info, fin, v_backtrace, vghost>>
    /\ gas_unchanged_by_validate

\* The nested call aborts: its scope is rolled back, a frame is added to the
\* backtrace, and the caller goes on (it handles the failure).
NestedAbort ==
    /\ vpc = "in_tx"
    /\ Len(tx_stack) > 1
    /\ tx_stack' = SubSeq(tx_stack, 1, Len(tx_stack) - 1)
    /\ state' = with_transaction(tx_stack[Len(tx_stack)], state, Failure(ExitUser))
    /\ backtrace' = Append(backtrace, ExitUser)
    /\ UNCHANGED <<gas_limit, gas_used, vpc, vpath, invoke_result, ret,
                   failure_info, fin, v_backtrace, vghost>>
    /\ gas_unchanged_by_validate

\* cm.validate returns a value.
ActorReturn ==
    /\ vpc = "in_tx"
    /\ Len(tx_stack) = 1
    /\ \E blk \in Payloads : invoke_result' = Return(blk)
    /\ vpc' = "returned"
    /\ vghost' = [vghost EXCEPT !.inner_state = state]
    /\ UNCHANGED <<gas_limit, gas_used, vpath, state, tx_stack, backtrace, ret,
                   failure_info, fin, v_backtrace>>
    /\ gas_unchanged_by_validate

\* cm.validate reports a Failure: the actor aborted with an exit code (a frame
\* is added to the backtrace), or the Failure carries the success code.
ActorFailure ==
    /\ vpc = "in_tx"
    /\ Len(tx_stack) = 1
    /\ \E c \in {ExitOK, ExitUser} :
         /\ invoke_result' = Failure(c)
         /\ backtrace' = IF is_success(c) THEN backtrace ELSE <<c>> \o backtrace
    /\ vpc' = "returned"
    /\ vghost' = [vghost EXCEPT !.inner_state = state]
    /\ UNCHANGED <<gas_limit, gas_used, vpath, state, tx_stack, ret,
                   failure_info, fin, v_backtrace>>
    /\ gas_unchanged_by_validate

\* cm.validate returns an execution error: the call could not be dispatched
\* (no frame ran, the backtrace gets none) or the host faulted under a frame.
ActorError ==
    /\ vpc = "in_tx"
    /\ Len(tx_stack) = 1
    /\ \E e \in ExecutionErrors, framed \in BOOLEAN :
         /\ invoke_result' = ExecErr(e)
         /\ backtrace' = IF framed THEN <<ExitUser>> \o backtrace ELSE backtrace
    /\ vpc' = "returned"
    /\ vghost' = [vghost EXCEPT !.inner_state = state]
    /\ UNCHANGED <<gas_limit, gas_used, vpath, state, tx_stack, ret,
                   failure_info, fin, v_backtrace>>
    /\ gas_unchanged_by_validate

\* validate_message from the return of cm.validate to its own return
\* (lines 93-141): the scope ends, the Call Manager is finished, the result
\* is matched and decoded.
ValidateEnd ==
    /\ vpc = "returned"
    /\ LET res == invoke_result
           f   == finish(gas_used, backtrace)
           bt  == backtrace_after_match(res, f.backtrace)
       IN /\ state' = validate_scope(tx_stack[1], state, res)
          /\ tx_stack' = <<>>
          /\ fin' = f
          /\ vghost' = [vghost EXCEPT
                 !.finish_calls = @ + count_calls(end_calls, "finish"),
                 !.calls = @ \o end_calls,
                 !.machine = machine_after(vghost.calls \o end_calls)]
          /\ IF fails_with_status_ok(res)
             THEN /\ ret' = RetErr("actor failed with status OK")
                  /\ vpath' = "status_ok"
                  /\ v_backtrace' = f.backtrace
                  /\ failure_info' = NoFailureInfo
             ELSE /\ v_backtrace' = bt
                  /\ failure_info' = failure_info_of(bt, match_is_ok(res))
                  /\ ret' = validate_ret(res)
                  /\ vpath' = "matched"
    /\ vpc' = "done"
    /\ UNCHANGED <<gas_limit, gas_used, backtrace, invoke_result>>
    /\ gas_unchanged_by_validate

NextValidate ==
    \/ ValidateBegin
    \/ ActorMutate
    \/ ActorChargeGas
    \/ NestedSend
    \/ NestedReturn
    \/ NestedAbort
    \/ ActorReturn
    \/ ActorFailure
    \/ ActorError
    \/ ValidateEnd

SpecValidate == InitValidate /\ [][NextValidate]_vars

(***************************************************************************)
(* Syscall handlers.                                                       *)
(***************************************************************************)
\* fvm_shared::randomness::RANDOMNESS_LENGTH
RANDOMNESS_LENGTH == 32

SysOk(k, v)  == [res |-> "Ok", value |-> v, kernel |-> k]
SysErr(k, e) == [res |-> e, value |-> <<>>, kernel |-> k]

\* Memory::try_slice(offset, len): the bytes offset .. offset+len of the
\* memory, or IllegalArgument when they are not all inside it.
try_slice_ok(mem, off, len) == off <= Len(mem) /\ len <= Len(mem) - off
try_slice(mem, off, len) == SubSeq(mem, off + 1, off + len)

\* What the bounds-checking property speaks of: offset+length past the end.
OutOfRange(mem, off, len) == off + len > Len(mem)

\* String::from_utf8 / str::from_utf8 on the bytes the model uses: a byte
\* below 128 is a character, 255 occurs in no UTF-8 text.
from_utf8_ok(bytes) == \A i \in 1 .. Len(bytes) : bytes[i] < 128

\* ---- the kernel's operations
kernel_log(k, msg) == [k EXCEPT !.log = Append(@, msg)]
kernel_store_artifact(k, name, data) ==
    [k EXCEPT !.artifacts = Append(@, [name |-> name, data |-> data])]
kernel_randomness(source, pers, round, entropy) ==
    [i \in 1 .. RANDOMNESS_LENGTH |->
        ((IF source = "tickets" THEN 1 ELSE 2) + pers + 3 * round
            + 5 * Len(entropy) + i) % 256]
kernel_rand_called(k, source) == [k EXCEPT !.rand_calls = Append(@, source)]

\* SendOps::send: the kernel runs the call and answers with a SendResult or
\* an execution error.
SendReturn(id, stat) == [tag |-> "Return", id |-> id, stat |-> stat,
                         code |-> ExitOK, err |-> "-"]
SendAbort(code) == [tag |-> "Abort", id |-> 0, stat |-> [codec |-> 0, size |-> 0],
                    code |-> code, err |-> "-"]
SendErr(e) == [tag |-> "Err", id |-> 0, stat |-> [codec |-> 0, size |-> 0],
               code |-> ExitOK, err |-> e]
kernel_send(k, recipient, method, params_id, value, result) ==
    [k EXCEPT !.sends = Append(@, [recipient |-> recipient, method |-> method,
                                   params_id |-> params_id, value |-> value,
                                   result |-> result])]

\* Memory::read_address(offset, len): the bytes are sliced and parsed as an
\* address; an empty buffer or one that starts with 255 is no address.
read_address_ok(mem, off, len) ==
    /\ try_slice_ok(mem, off, len)
    /\ len > 0
    /\ try_slice(mem, off, len)[1] # 255
read_address(mem, off, len) == try_slice(mem, off, len)

\* TokenAmount::from_atto((value_hi as u128) << 64 | value_lo as u128): the
\* 128-bit amount, kept as its two 64-bit halves.
from_atto(value_hi, value_lo) == <<value_hi, value_lo>>

\* (a variant of Debug::log that logs whatever part of the buffer is inside
\* the memory instead of failing)
Debug_log_clipped(k, mem, msg_off, msg_len) ==
    IF ~k.debug_enabled
    THEN SysOk(k, <<>>)
    ELSE LET msg == try_slice(mem, Min(msg_off, Len(mem)),
                              Min(msg_len, Len(mem) - Min(msg_off, Len(mem))))
         IN IF ~from_utf8_ok(msg)
            THEN SysErr(k, "IllegalArgument")
            ELSE SysOk(kernel_log(k, msg), <<>>)

\* Debug::log
Debug_log(k, mem, msg_off, msg_len) ==
    IF ~k.debug_enabled
    THEN SysOk(k, <<>>)
    ELSE IF ~try_slice_ok(mem, msg_off, msg_len)
    THEN SysErr(k, "IllegalArgument")
    ELSE IF ~from_utf8_ok(try_slice(mem, msg_off, msg_len))
    THEN SysErr(k, "IllegalArgument")
    ELSE SysOk(kernel_log(k, try_slice(mem, msg_off, msg_len)), <<>>)

\* (a variant of Debug::enabled that answers with the flag as a number)
Debug_enabled_as_bool(k) == SysOk(k, IF k.debug_enabled THEN <<1>> ELSE <<0>>)

\* Debug::enabled
Debug_enabled(k) == SysOk(k, IF k.debug_enabled THEN <<0>> ELSE <<-1>>)

\* (a variant of Debug::store_artifact that stores under whatever bytes the
\* name buffer holds)
Debug_store_artifact_any_name(k, mem, name_off, name_len, data_off, data_len, kernel_ok) ==
    IF ~k.debug_enabled
    THEN SysOk(k, <<>>)
    ELSE IF ~try_slice_ok(mem, data_off, data_len)
    THEN SysErr(k, "IllegalArgument")
    ELSE IF ~try_slice_ok(mem, name_off, name_len)
    THEN SysErr(k, "IllegalArgument")
    ELSE IF ~kernel_ok
    THEN SysErr(k, "KernelError")
    ELSE SysOk(kernel_store_artifact(k, try_slice(mem, name_off, name_len),
                                     try_slice(mem, data_off, data_len)), <<>>)

\* Debug::store_artifact
Debug_store_artifact(k, mem, name_off, name_len, data_off, data_len, kernel_ok) ==
    IF ~k.debug_enabled
    THEN SysOk(k, <<>>)
    ELSE IF ~try_slice_ok(mem, data_off, data_len)
    THEN SysErr(k, "IllegalArgument")
    ELSE IF ~try_slice_ok(mem, name_off, name_len)
    THEN SysErr(k, "IllegalArgument")
    ELSE IF ~from_utf8_ok(try_slice(mem, name_off, name_len))
    THEN SysErr(k, "IllegalArgument")
    ELSE IF ~kernel_ok
    THEN SysErr(k, "KernelError")
    ELSE SysOk(kernel_store_artifact(k, try_slice(mem, name_off, name_len),
                                     try_slice(mem, data_off, data_len)), <<>>)

\* (a variant of Rand::get_chain_randomness that hands the kernel whatever
\* part of the entropy buffer is inside the memory)
Rand_get_chain_randomness_clipped(k, mem, pers, round, entropy_off, entropy_len, kernel_ok) ==
    LET off == Min(entropy_off, Len(mem))
        entropy == try_slice(mem, off, Min(entropy_len, Len(mem) - off))
    IN IF ~kernel_ok
       THEN SysErr(kernel_rand_called(k, "tickets"), "KernelError")
       ELSE SysOk(kernel_rand_called(k, "tickets"),
                  kernel_randomness("tickets", pers, round, entropy))

\* Rand::get_chain_randomness
Rand_get_chain_randomness(k, mem, pers, round, entropy_off, entropy_len, kernel_ok) ==
    IF ~try_slice_ok(mem, entropy_off, entropy_len)
    THEN SysErr(k, "IllegalArgument")
    ELSE IF ~kernel_ok
    THEN SysErr(kernel_rand_called(k, "tickets"), "KernelError")
    ELSE SysOk(kernel_rand_called(k, "tickets"),
               kernel_randomness("tickets", pers, round,
                                 try_slice(mem, entropy_off, entropy_len)))

\* Rand::get_beacon_randomness
Rand_get_beacon_randomness(k, mem, pers, round, entropy_off, entropy_len, kernel_ok) ==
    IF ~try_slice_ok(mem, entropy_off, entropy_len)
    THEN SysErr(k, "IllegalArgument")
    ELSE IF ~kernel_ok
    THEN SysErr(kernel_rand_called(k, "beacon"), "KernelError")
    ELSE SysOk(kernel_rand_called(k, "beacon"),
               kernel_randomness("beacon", pers, round,
                                 try_slice(mem, entropy_off, entropy_len)))

\* sys::out::send::Send
SendReceipt(exit_code_value, return_id, return_codec, return_size) ==
    <<exit_code_value, return_id, return_codec, return_size>>

\* (a variant of Send::send that reports an aborted callee as a failed syscall)
Send_send_abort_is_error(k, mem, recipient_off, recipient_len, method, params_id, value_hi, value_lo, result) ==
    IF ~read_address_ok(mem, recipient_off, recipient_len)
    THEN SysErr(k, "IllegalArgument")
    ELSE LET k2 == kernel_send(k, read_address(mem, recipient_off, recipient_len),
                               method, params_id, from_atto(value_hi, value_lo),
                               result)
         IN CASE result.tag = "Err"    -> SysErr(k2, result.err)
              [] result.tag = "Return" ->
                    SysOk(k2, SendReceipt(ExitOK, result.id, result.stat.codec,
                                          result.stat.size))
              [] OTHER                 -> SysErr(k2, "Abort")

\* Send::send
Send_send(k, mem, recipient_off, recipient_len, method, params_id, value_hi, value_lo, result) ==
    IF ~read_address_ok(mem, recipient_off, recipient_len)
    THEN SysErr(k, "IllegalArgument")
    ELSE LET k2 == kernel_send(k, read_address(mem, recipient_off, recipient_len),
                               method, params_id, from_atto(value_hi, value_lo),
                               result)
         IN CASE result.tag = "Err"    -> SysErr(k2, result.err)
              [] result.tag = "Return" ->
                    SysOk(k2, SendReceipt(ExitOK, result.id, result.stat.codec,
                                          result.stat.size))
              [] OTHER                 ->
                    SysOk(k2, SendReceipt(result.code, 0, 0, 0))

\* ---- the checked binding
\* bind_checked_syscalls, the predicate: let check = |k| { todo!() }. It
\* panics whenever it is evaluated; it yields neither true nor false.
check(k) == "panic"

\* bind_checked(module, name, handler, check): the predicate is evaluated
\* first; the handler runs only if it holds, a false predicate rejects the
\* call with an abort of the frame, and a panic takes the host down.
bind_checked(c, k, out) ==
    CASE c = "panic" -> [res |-> "Panic", value |-> <<>>, kernel |-> k, ran |-> FALSE]
      [] c = "false" -> [res |-> "Abort", value |-> <<>>, kernel |-> k, ran |-> FALSE]
      [] OTHER       -> [res |-> out.res, value |-> out.value,
                         kernel |-> out.kernel, ran |-> TRUE]

\* Arguments the syscalls are tried with: every offset and length up to one
\* past the memory size; where a call has more arguments, the ends and the
\* start of that range, and for the data of store_artifact an empty buffer,
\* a readable one and one that ends past the memory.
Offsets == 0 .. MemSize + 1
Lengths == 0 .. MemSize + 1
EdgeOffsets == {0, 1, MemSize + 1}
EdgeLengths == {0, 1, MemSize + 1}
DataBuffers == {<<0, 0>>, <<0, 1>>, <<1, MemSize>>}
Tags == {1}
Rounds == {0}
\* For send: a recipient buffer that is readable, an empty one and one that
\* ends past the memory; a value with both halves set; what the kernel
\* answers.
RecipientBuffers == {<<0, 1>>, <<1, 0>>, <<1, MemSize>>}
SendResults ==
    {SendReturn(1, [codec |-> 113, size |-> 3]),
     SendAbort(ExitUser), SendAbort(ExitOutOfGas), SendErr("Fatal")}

InitSys ==
    /\ GasIdle
    /\ gas_limit = 0
    /\ gas_used = 0
    /\ ValIdle
    /\ state = 0
    /\ memory \in [1 .. MemSize -> Bytes]
    /\ kernel \in Kernels
    /\ sys = NoSyscall
    /\ ncalls = 0
    /\ spc = "running"
    /\ BindIdle
    /\ HamtIdle

\* The try_slice calls a debug handler makes on the sandbox memory, in
\* order, as <<offset, length>>: none while debug is disabled (debug.rs
\* lines 15-17, 41-43), none at all by Debug::enabled; Debug::log slices the
\* message (line 19), Debug::store_artifact the data and, if that succeeded,
\* the name (lines 45-46).
Debug_try_slice_calls(name, k, mem, args) ==
    CASE name = "debug.log" ->
           IF ~k.debug_enabled THEN <<>> ELSE << <<args[1], args[2]>> >>
      [] name = "debug.store_artifact" ->
           IF ~k.debug_enabled THEN <<>>
           ELSE IF ~try_slice_ok(mem, args[3], args[4])
           THEN << <<args[3], args[4]>> >>
           ELSE << <<args[3], args[4]>>, <<args[1], args[2]>> >>
      [] OTHER -> <<>>

\* The record of one syscall: its arguments (those a property reads), its
\* result and the memory and kernel around it.
Syscall(name, args, out, oob, checked, ran) ==
    /\ spc = "running"
    /\ ncalls < MaxCalls
    /\ sys' = [name |-> name, args |-> args, res |-> out.res,
               value |-> out.value, oob |-> oob,
               checked |-> checked, handler_ran |-> ran,
               debug_reads |-> IF ran /\ ~checked
                               THEN Debug_try_slice_calls(name, kernel, memory, args)
                               ELSE <<>>,
               mem_before |-> memory, mem_after |-> memory,
               kernel_before |-> kernel, kernel_after |-> out.kernel]
    /\ kernel' = out.kernel
    /\ memory' = memory
    /\ ncalls' = ncalls + 1
    /\ spc' = IF out.res = "Panic" THEN "crashed" ELSE "running"
    /\ UNCHANGED <<gasvars, valvars, bindvars, hamtvars>>

DebugLog ==
    \E off \in Offsets, len \in Lengths :
        Syscall("debug.log", <<off, len>>, Debug_log(kernel, memory, off, len),
                OutOfRange(memory, off, len), FALSE, TRUE)

DebugEnabled ==
    Syscall("debug.enabled", <<>>, Debug_enabled(kernel), FALSE, FALSE, TRUE)

DebugStoreArtifact ==
    \E name_off \in EdgeOffsets, name_len \in EdgeLengths,
       data \in DataBuffers, kernel_ok \in BOOLEAN :
        LET data_off == data[1]
            data_len == data[2]
        IN Syscall("debug.store_artifact",
                   <<name_off, name_len, data_off, data_len>>,
                   Debug_store_artifact(kernel, memory, name_off, name_len,
                                        data_off, data_len, kernel_ok),
                   OutOfRange(memory, name_off, name_len)
                       \/ OutOfRange(memory, data_off, data_len),
                   FALSE, TRUE)

GetChainRandomness ==
    \E pers \in Tags, round \in Rounds, off \in EdgeOffsets, len \in Lengths,
       kernel_ok \in BOOLEAN :
        Syscall("rand.get_chain_randomness", <<pers, round, off, len>>,
                Rand_get_chain_randomness(kernel, memory, pers, round, off, len,
                                          kernel_ok),
                OutOfRange(memory, off, len), FALSE, TRUE)

GetBeaconRandomness ==
    \E pers \in Tags, round \in Rounds, off \in EdgeOffsets, len \in Lengths,
       kernel_ok \in BOOLEAN :
        Syscall("rand.get_beacon_randomness", <<pers, round, off, len>>,
                Rand_get_beacon_randomness(kernel, memory, pers, round, off, len,
                                           kernel_ok),
                OutOfRange(memory, off, len), FALSE, TRUE)

SendSend ==
    \E recipient \in RecipientBuffers, result \in SendResults :
        Syscall("send.send", <<recipient[1], recipient[2], 2, 0, 1, 1>>,
                Send_send(kernel, memory, recipient[1], recipient[2], 2, 0, 1, 1,
                          result),
                OutOfRange(memory, recipient[1], recipient[2]), FALSE, TRUE)

\* A syscall made through the surface bind_checked_syscalls builds
\* (here debug.enabled and debug.log, bound at lines 273-274).
CheckedCall ==
    \E name \in {"debug.enabled", "debug.log"},
       off \in EdgeOffsets, len \in EdgeLengths :
        LET handler == IF name = "debug.log"
                       THEN Debug_log(kernel, memory, off, len)
                       ELSE Debug_enabled(kernel)
            out == bind_checked(check(kernel), kernel, handler)
        IN Syscall(name, <<>>, out,
                   name = "debug.log" /\ OutOfRange(memory, off, len),
                   TRUE, out.ran)

NextSys ==
    \/ DebugLog
    \/ DebugEnabled
    \/ DebugStoreArtifact
    \/ GetChainRandomness
    \/ GetBeaconRandomness
    \/ SendSend
    \/ CheckedCall

SpecSys == InitSys /\ [][NextSys]_vars

(***************************************************************************)
(* The syscall surfaces: bind_syscalls and bind_checked_syscalls.          *)
(***************************************************************************)
\* One binding: linker.bind(module, name, handler).
B(module, name, handler) == [module |-> module, name |-> name, handler |-> handler]

\* bind_syscalls, lines 102-178, in the order of the source. The binding of
\* actor.install_actor is compiled in with the feature "m2-native" only.
bind_syscalls_table(m2) ==
    << B("vm", "abort", "vm::abort"),
       B("vm", "context", "vm::context"),
       B("network", "base_fee", "network::base_fee"),
       B("network", "total_fil_circ_supply", "network::total_fil_circ_supply"),
       B("ipld", "block_open", "ipld::block_open"),
       B("ipld", "block_create", "ipld::block_create"),
       B("ipld", "block_read", "ipld::block_read"),
       B("ipld", "block_stat", "ipld::block_stat"),
       B("ipld", "block_link", "ipld::block_link"),
       B("self", "root", "sself::root"),
       B("self", "set_root", "sself::set_root"),
       B("self", "current_balance", "sself::current_balance"),
       B("self", "self_destruct", "sself::self_destruct"),
       B("actor", "resolve_address", "actor::resolve_address"),
       B("actor", "get_actor_code_cid", "actor::get_actor_code_cid"),
       B("actor", "new_actor_address", "actor::new_actor_address"),
       B("actor", "create_actor", "actor::create_actor"),
       B("actor", "get_builtin_actor_type", "actor::get_builtin_actor_type"),
       B("actor", "get_code_cid_for_type", "actor::get_code_cid_for_type") >>
    \o (IF m2 THEN << B("actor", "install_actor", "actor::install_actor") >>
              ELSE << >>)
    \o
    << B("crypto", "verify_signature", "crypto::verify_signature"),
       B("crypto", "hash", "crypto::hash"),
       B("crypto", "verify_seal", "crypto::verify_seal"),
       B("crypto", "verify_post", "crypto::verify_post"),
       B("crypto", "compute_unsealed_sector_cid", "crypto::compute_unsealed_sector_cid"),
       B("crypto", "verify_consensus_fault", "crypto::verify_consensus_fault"),
       B("crypto", "verify_aggregate_seals", "crypto::verify_aggregate_seals"),
       B("crypto", "verify_replica_update", "crypto::verify_replica_update"),
       B("crypto", "batch_verify_seals", "crypto::batch_verify_seals"),
       B("rand", "get_chain_randomness", "rand::get_chain_randomness"),
       B("rand", "get_beacon_randomness", "rand::get_beacon_randomness"),
       B("gas", "charge", "gas::charge_gas"),
       B("send", "send", "send::send"),
       B("debug", "log", "debug::log"),
       B("debug", "enabled", "debug::enabled"),
       B("debug", "store_artifact", "debug::store_artifact") >>

\* (a variant of the checked table that leaves send.send out)
bind_checked_syscalls_table_without_send(m2) ==
    SelectSeq(bind_syscalls_table(m2), LAMBDA b : b.module # "send")

\* bind_checked_syscalls, lines 192-275, in the order of the source; every
\* entry is bound with the predicate `check`.
bind_checked_syscalls_table(m2) ==
    << B("vm", "abort", "vm::abort"),
       B("vm", "context", "vm::context"),
       B("network", "base_fee", "network::base_fee"),
       B("network", "total_fil_circ_supply", "network::total_fil_circ_supply"),
       B("ipld", "block_open", "ipld::block_open"),
       B("ipld", "block_create", "ipld::block_create"),
       B("ipld", "block_read", "ipld::block_read"),
       B("ipld", "block_stat", "ipld::block_stat"),
       B("ipld", "block_link", "ipld::block_link"),
       B("self", "root", "sself::root"),
       B("self", "set_root", "sself::set_root"),
       B("self", "current_balance", "sself::current_balance"),
       B("self", "self_destruct", "sself::self_destruct"),
       B("actor", "resolve_address", "actor::resolve_address"),
       B("actor", "get_actor_code_cid", "actor::get_actor_code_cid"),
       B("actor", "new_actor_address", "actor::new_actor_address"),
       B("actor", "create_actor", "actor::create_actor"),
       B("actor", "get_builtin_actor_type", "actor::get_builtin_actor_type"),
       B("actor", "get_code_cid_for_type", "actor::get_code_cid_for_type") >>
    \o (IF m2 THEN << B("actor", "install_actor", "actor::install_actor") >>
              ELSE << >>)
    \o
    << B("crypto", "verify_signature", "crypto::verify_signature"),
       B("crypto", "hash", "crypto::hash"),
       B("crypto", "verify_seal", "crypto::verify_seal"),
       B("crypto", "verify_post", "crypto::verify_post"),
       B("crypto", "compute_unsealed_sector_cid", "crypto::compute_unsealed_sector_cid"),
       B("crypto", "verify_consensus_fault", "crypto::verify_consensus_fault"),
       B("crypto", "verify_aggregate_seals", "crypto::verify_aggregate_seals"),
       B("crypto", "verify_replica_update", "crypto::verify_replica_update"),
       B("crypto", "batch_verify_seals", "crypto::batch_verify_seals"),
       B("rand", "get_chain_randomness", "rand::get_chain_randomness"),
       B("rand", "get_beacon_randomness", "rand::get_beacon_randomness"),
       B("gas", "charge", "gas::charge_gas"),
       B("send", "send", "send::send"),
       B("debug", "log", "debug::log"),
       B("debug", "enabled", "debug::enabled"),
       B("debug", "store_artifact", "debug::store_artifact") >>

\* The linker: a set of definitions, each a name, its handler and whether
\* the handler is behind the predicate. Defining a name twice is an error.
linker_defines(linker, module, name) ==
    \E d \in linker : d.module = module /\ d.name = name
linker_bind(linker, b, checked) ==
    linker \cup {[module |-> b.module, name |-> b.name, handler |-> b.handler,
                  checked |-> checked]}

\* One statement of a binding function: the next `linker.bind(..)?` of the
\* table, or the final Ok(()).
bind_step(surface, table, checked) ==
    IF surface.pc = Len(table)
    THEN [surface EXCEPT !.res = "Ok"]
    ELSE LET b == table[surface.pc + 1]
         IN IF linker_defines(surface.linker, b.module, b.name)
            THEN [surface EXCEPT !.res = "Err"]
            ELSE [linker |-> linker_bind(surface.linker, b, checked),
                  pc |-> surface.pc + 1, res |-> "-"]

InitBind ==
    /\ GasIdle
    /\ gas_limit = 0
    /\ gas_used = 0
    /\ ValIdle
    /\ state = 0
    /\ SysIdle
    /\ m2_native \in BOOLEAN
    /\ full_surface = NoSurface
    /\ checked_surface = NoSurface
    /\ HamtIdle

\* bind_syscalls, one statement.
BindSyscalls ==
    /\ full_surface.res = "-"
    /\ full_surface' = bind_step(full_surface, bind_syscalls_table(m2_native), FALSE)
    /\ UNCHANGED <<m2_native, checked_surface>>
    /\ UNCHANGED <<gasvars, valvars, sysvars, hamtvars>>

\* bind_checked_syscalls, one statement.
BindCheckedSyscalls ==
    /\ checked_surface.res = "-"
    /\ checked_surface' = bind_step(checked_surface,
                                    bind_checked_syscalls_table(m2_native), TRUE)
    /\ UNCHANGED <<m2_native, full_surface>>
    /\ UNCHANGED <<gasvars, valvars, sysvars, hamtvars>>

NextBind ==
    \/ BindSyscalls
    \/ BindCheckedSyscalls

SpecBind == InitBind /\ [][NextBind]_vars

(***************************************************************************)
(* The Hamt of ipld/hamt/src/hamt.rs.                                      *)
(***************************************************************************)
Keys == 1 .. MaxKey

\* Option<V> and Option<(K, V)>
None == [some |-> FALSE, val |-> 0]
Some(v) == [some |-> TRUE, val |-> v]
NoEntry == [some |-> FALSE, key |-> 0, val |-> 0]
Entry(k, v) == [some |-> TRUE, key |-> k, val |-> v]

\* ---- the hash of a key and the part of it a node of a given depth uses
\* The hash algorithm: here one whose values share their leading bits, so
\* that buckets fill up and split.
Hash(k) == k - 1
\* HashBits::next(bit_width): the next bit_width bits, from the first bit on.
hash_bits(k, bit_width, depth) ==
    (Hash(k) \div (2 ^ (HashLen - bit_width * (depth + 1)))) % (2 ^ bit_width)

\* ---- Pointer and Node
NoPointer == [kind |-> "none", kvs |-> <<>>, node |-> <<>>, cid |-> <<>>]
ValuesPtr(kvs) == [kind |-> "values", kvs |-> kvs, node |-> <<>>, cid |-> <<>>]
LinkPtr(cid) == [kind |-> "link", kvs |-> <<>>, node |-> <<>>, cid |-> cid]
DirtyPtr(node) == [kind |-> "dirty", kvs |-> <<>>, node |-> node, cid |-> <<>>]

Slots(bit_width) == 0 .. (2 ^ bit_width - 1)
\* Node::default()
EmptyNode(bit_width) == [i \in Slots(bit_width) |-> NoPointer]
\* node.pointers.len()
pointers_len(node) == Cardinality({i \in DOMAIN node : node[i].kind # "none"})
\* Node::is_empty
node_is_empty(node) == pointers_len(node) = 0

\* ---- the encoding of a node: its bitfield and its pointers in the order
\* of their slots
bitfield(node) == {i \in DOMAIN node : node[i].kind # "none"}
index_for_bit_pos(bits, i) == Cardinality({j \in bits : j < i}) + 1
slot_of_index(bits, n) == CHOOSE i \in bits : index_for_bit_pos(bits, i) = n
node_serialize(node) ==
    [bitfield |-> bitfield(node),
     pointers |-> [n \in 1 .. Cardinality(bitfield(node)) |->
                      LET p == node[slot_of_index(bitfield(node), n)]
                      IN IF p.kind = "values"
                         THEN [kind |-> "values", kvs |-> p.kvs, cid |-> <<>>]
                         ELSE [kind |-> "link", kvs |-> <<>>, cid |-> p.cid]]]
node_deserialize(block, bit_width) ==
    [i \in Slots(bit_width) |->
        IF i \in block.bitfield
        THEN LET p == block.pointers[index_for_bit_pos(block.bitfield, i)]
             IN IF p.kind = "values" THEN ValuesPtr(p.kvs) ELSE LinkPtr(p.cid)
        ELSE NoPointer]

\* ---- the block store (content addressed: a block is found under the Cid
\* of its bytes, which stands for those bytes)
put_cbor(store, node) == store \cup {node_serialize(node)}
cid_of(node) == node_serialize(node)
get_cbor_some(store, cid) == cid \in store

\* ---- bucket operations
kv_index(kvs, k) ==
    IF \E i \in 1 .. Len(kvs) : kvs[i][1] = k
    THEN CHOOSE i \in 1 .. Len(kvs) : kvs[i][1] = k
    ELSE 0
insert_in_order(kvs, k, v) ==
    LET later == {i \in 1 .. Len(kvs) : kvs[i][1] > k}
        idx   == IF later = {} THEN Len(kvs) + 1
                 ELSE CHOOSE i \in later : \A j \in later : i <= j
    IN SubSeq(kvs, 1, idx - 1) \o <<<<k, v>>>> \o SubSeq(kvs, idx, Len(kvs))
remove_at(kvs, i) == SubSeq(kvs, 1, i - 1) \o SubSeq(kvs, i + 1, Len(kvs))

RECURSIVE sort_by_key(_)
sort_by_key(S) ==
    IF S = {} THEN <<>>
    ELSE LET m == CHOOSE x \in S : \A y \in S : x[1] <= y[1]
         IN <<m>> \o sort_by_key(S \ {m})

\* ---- Node::get
RECURSIVE node_get(_, _, _, _, _)
node_get(node, k, bit_width, depth, store) ==
    LET p == node[hash_bits(k, bit_width, depth)]
    IN CASE p.kind = "none"   -> None
         [] p.kind = "values" ->
                IF kv_index(p.kvs, k) = 0 THEN None
                ELSE Some(p.kvs[kv_index(p.kvs, k)][2])
         [] p.kind = "dirty"  -> node_get(p.node, k, bit_width, depth + 1, store)
         [] OTHER             ->
                IF get_cbor_some(store, p.cid)
                THEN node_get(node_deserialize(p.cid, bit_width), k, bit_width,
                              depth + 1, store)
                ELSE None

\* ---- Node::set (modify_value): the node after the call, the old value and
\* whether the node was modified
RECURSIVE node_set(_, _, _, _, _, _, _)
RECURSIVE insert_all(_, _, _, _, _, _, _)
insert_all(sub, kvs, i, bit_width, depth, store, overwrite) ==
    IF i > Len(kvs) THEN sub
    ELSE insert_all(node_set(sub, kvs[i][1], kvs[i][2], bit_width, depth, store,
                             overwrite).node,
                    kvs, i + 1, bit_width, depth, store, overwrite)
node_set(node, k, v, bit_width, depth, store, overwrite) ==
    LET idx == hash_bits(k, bit_width, depth)
        p   == node[idx]
    IN CASE p.kind = "none" ->
              [node |-> [node EXCEPT ![idx] = ValuesPtr(<<<<k, v>>>>)],
               old |-> None, modified |-> TRUE]
         [] p.kind = "link" ->
              LET r == node_set(node_deserialize(p.cid, bit_width), k, v,
                                bit_width, depth + 1, store, overwrite)
              IN [node |-> IF r.modified
                           THEN [node EXCEPT ![idx] = DirtyPtr(r.node)]
                           ELSE node,
                  old |-> r.old, modified |-> r.modified]
         [] p.kind = "dirty" ->
              LET r == node_set(p.node, k, v, bit_width, depth + 1, store,
                                overwrite)
              IN [node |-> [node EXCEPT ![idx] = DirtyPtr(r.node)],
                  old |-> r.old, modified |-> r.modified]
         [] OTHER ->
              LET i == kv_index(p.kvs, k)
              IN IF i # 0
                 THEN IF overwrite
                      THEN [node |-> [node EXCEPT ![idx] =
                                        ValuesPtr([p.kvs EXCEPT ![i] = <<k, v>>])],
                            old |-> Some(p.kvs[i][2]),
                            modified |-> p.kvs[i][2] # v]
                      ELSE [node |-> node, old |-> None, modified |-> FALSE]
                 ELSE IF Len(p.kvs) >= MAX_ARRAY_WIDTH
                 THEN LET first == node_set(EmptyNode(bit_width), k, v, bit_width,
                                            depth + 1, store, overwrite)
                          sub   == insert_all(first.node, p.kvs, 1, bit_width,
                                              depth + 1, store, overwrite)
                      IN [node |-> [node EXCEPT ![idx] = DirtyPtr(sub)],
                          old |-> first.old, modified |-> first.modified]
                 ELSE [node |-> [node EXCEPT ![idx] =
                                   ValuesPtr(insert_in_order(p.kvs, k, v))],
                       old |-> None, modified |-> TRUE]

\* ---- Pointer::clean: a dirty child that got small is folded back into a
\* bucket of its parent
clean(p) ==
    LET n    == p.node
        used == bitfield(n)
        kvs  == UNION {{n[i].kvs[j] : j \in 1 .. Len(n[i].kvs)} : i \in used}
    IN CASE Cardinality(used) = 1 ->
              LET only == n[CHOOSE i \in used : TRUE]
              IN IF only.kind = "values" THEN ValuesPtr(only.kvs) ELSE p
         [] Cardinality(used) \in 2 .. MAX_ARRAY_WIDTH ->
              IF /\ \A i \in used : n[i].kind = "values"
                 /\ Cardinality(kvs) <= MAX_ARRAY_WIDTH
              THEN ValuesPtr(sort_by_key(kvs))
              ELSE p
         [] OTHER -> p

\* ---- Node::remove_entry (rm_value): the node after the call and the
\* removed entry
RECURSIVE node_remove_entry(_, _, _, _, _)
node_remove_entry(node, k, bit_width, depth, store) ==
    LET idx == hash_bits(k, bit_width, depth)
        p   == node[idx]
    IN CASE p.kind = "none" -> [node |-> node, old |-> NoEntry]
         [] p.kind = "link" ->
              LET r == node_remove_entry(node_deserialize(p.cid, bit_width), k,
                                         bit_width, depth + 1, store)
              IN [node |-> IF r.old.some
                           THEN [node EXCEPT ![idx] = clean(DirtyPtr(r.node))]
                           ELSE node,
                  old |-> r.old]
         [] p.kind = "dirty" ->
              LET r == node_remove_entry(p.node, k, bit_width, depth + 1, store)
              IN [node |-> [node EXCEPT ![idx] = clean(DirtyPtr(r.node))],
                  old |-> r.old]
         [] OTHER ->
              LET i == kv_index(p.kvs, k)
              IN IF i = 0
                 THEN [node |-> node, old |-> NoEntry]
                 ELSE [node |-> [node EXCEPT ![idx] =
                                   IF Len(p.kvs) = 1 THEN NoPointer
                                   ELSE ValuesPtr(remove_at(p.kvs, i))],
                       old |-> Entry(p.kvs[i][1], p.kvs[i][2])]

\* ---- Node::flush: every dirty child is flushed and stored, and becomes a
\* link to its Cid
RECURSIVE node_flush(_)
node_flush(node) ==
    [i \in DOMAIN node |->
        IF node[i].kind = "dirty"
        THEN LinkPtr(cid_of(node_flush(node[i].node)))
        ELSE node[i]]
RECURSIVE flushed_blocks(_)
flushed_blocks(node) ==
    UNION {{node_serialize(node_flush(node[i].node))}
               \cup flushed_blocks(node[i].node) :
           i \in {j \in DOMAIN node : node[j].kind = "dirty"}}

\* ---- Hamt
\* Hamt::new_with_bit_width
Hamt_new_with_bit_width(bit_width) ==
    [root |-> EmptyNode(bit_width), bit_width |-> bit_width]

\* (a variant of Hamt::set that does not overwrite)
Hamt_set_keeps_old(h, store, k, v) ==
    LET r == node_set(h.root, k, v, h.bit_width, 0, store, FALSE)
    IN [hamt |-> [h EXCEPT !.root = r.node], result |-> r.old]

\* Hamt::set: root.set(key, value, store, bit_width, true).map(|(r, _)| r)
Hamt_set(h, store, k, v) ==
    LET r == node_set(h.root, k, v, h.bit_width, 0, store, TRUE)
    IN [hamt |-> [h EXCEPT !.root = r.node], result |-> r.old]

\* (a variant of Hamt::set_if_absent that overwrites)
Hamt_set_if_absent_overwrites(h, store, k, v) ==
    LET r == node_set(h.root, k, v, h.bit_width, 0, store, TRUE)
    IN [hamt |-> [h EXCEPT !.root = r.node], result |-> r.modified]

\* Hamt::set_if_absent: root.set(key, value, store, bit_width, false)
\*                          .map(|(_, set)| set)
Hamt_set_if_absent(h, store, k, v) ==
    LET r == node_set(h.root, k, v, h.bit_width, 0, store, FALSE)
    IN [hamt |-> [h EXCEPT !.root = r.node], result |-> r.modified]

\* Hamt::get
Hamt_get(h, store, k) == node_get(h.root, k, h.bit_width, 0, store)

\* Hamt::contains_key
Hamt_contains_key(h, store, k) == node_get(h.root, k, h.bit_width, 0, store).some

\* Hamt::delete
Hamt_delete(h, store, k) ==
    LET r == node_remove_entry(h.root, k, h.bit_width, 0, store)
    IN [hamt |-> [h EXCEPT !.root = r.node], result |-> r.old]

\* Hamt::is_empty
Hamt_is_empty(h) == node_is_empty(h.root)

\* Hamt::flush: root.flush(store), then store.put_cbor(&root)
Hamt_flush(h, store) ==
    LET root == node_flush(h.root)
    IN [hamt |-> [h EXCEPT !.root = root],
        store |-> put_cbor(store \cup flushed_blocks(h.root), root),
        cid |-> cid_of(root)]

\* (a variant of load_with_bit_width that starts from an empty root)
Hamt_load_empty(cid, store, bit_width) ==
    IF get_cbor_some(store, cid)
    THEN [res |-> "Ok", hamt |-> Hamt_new_with_bit_width(bit_width)]
    ELSE [res |-> "CidNotFound", hamt |-> Hamt_new_with_bit_width(bit_width)]

\* Hamt::load_with_bit_width
Hamt_load_with_bit_width(cid, store, bit_width) ==
    IF get_cbor_some(store, cid)
    THEN [res |-> "Ok",
          hamt |-> [root |-> node_deserialize(cid, bit_width),
                    bit_width |-> bit_width]]
    ELSE [res |-> "CidNotFound", hamt |-> Hamt_new_with_bit_width(bit_width)]

\* (a variant of set_root that drops the root when the Cid is not found)
Hamt_set_root_drops_root(h, store, cid) ==
    IF get_cbor_some(store, cid)
    THEN [res |-> "Ok",
          hamt |-> [h EXCEPT !.root = node_deserialize(cid, h.bit_width)]]
    ELSE [res |-> "CidNotFound",
          hamt |-> [h EXCEPT !.root = EmptyNode(h.bit_width)]]

\* Hamt::set_root: the root becomes the node stored under the Cid; when the
\* store has no such block the Hamt is returned as it was, with CidNotFound.
Hamt_set_root(h, store, cid) ==
    IF get_cbor_some(store, cid)
    THEN [res |-> "Ok",
          hamt |-> [h EXCEPT !.root = node_deserialize(cid, h.bit_width)]]
    ELSE [res |-> "CidNotFound", hamt |-> h]

\* PartialEq for Hamt: self.root == other.root
Hamt_eq(a, b) == a.root = b.root

\* What every key reads as.
Contents(h, store) == [k \in Keys |-> Hamt_get(h, store, k)]

BitWidths == {1, 2}

InitHamt ==
    /\ GasIdle
    /\ gas_limit = 0
    /\ gas_used = 0
    /\ ValIdle
    /\ state = 0
    /\ SysIdle
    /\ BindIdle
    /\ \E bit_width \in BitWidths : hamt = Hamt_new_with_bit_width(bit_width)
    /\ blockstore = {}
    /\ hmap = [k \in Keys |-> None]
    /\ hlast = NoHamtOp
    /\ hflush = NoFlush
    /\ loaded = NoLoad

\* An operation is followed when nothing was loaded yet (a load builds
\* another Hamt, and the run ends with it) and, after the first flush, while
\* fewer than MaxOpsAfterFlush operations were made (those that can add to
\* the Hamt or the store: set_root and load of a stored root are not
\* counted).
HamtOpen ==
    /\ ~loaded.done
    /\ hlast.op # "load"
    /\ hflush.count = 0 \/ hflush.after < MaxOpsAfterFlush
AfterOp ==
    IF hflush.count = 0 THEN hflush ELSE [hflush EXCEPT !.after = @ + 1]

HamtOp(op, k, v, result, before) ==
    [op |-> op, key |-> k, val |-> v, result |-> result,
     before |-> before, cid |-> <<>>, root |-> <<>>]

\* Cids set_root and load are tried with: the one the Hamt's root would get
\* if it were flushed now, the one of an empty root (each in the store only
\* if such a node was stored before), and the one the last flush returned.
RootCids ==
    {cid_of(node_flush(hamt.root)), cid_of(EmptyNode(hamt.bit_width))}
        \cup (IF hflush.count > 0 THEN {hflush.cid} ELSE {})

\* The map a root stored under one of these Cids stands for.
RootMap(cid) ==
    IF cid = cid_of(node_flush(hamt.root)) THEN hmap
    ELSE IF hflush.count > 0 /\ cid = hflush.cid THEN hflush.map
    ELSE [k \in Keys |-> None]

HamtSet ==
    /\ HamtOpen
    /\ LET before == Contents(hamt, blockstore)
       IN \E k \in Keys, v \in Vals :
            LET r == Hamt_set(hamt, blockstore, k, v)
            IN /\ hamt' = r.hamt
               /\ hlast' = HamtOp("set", k, v, r.result, before)
               /\ hmap' = [hmap EXCEPT ![k] = Some(v)]
    /\ hflush' = AfterOp
    /\ UNCHANGED <<blockstore, loaded>>
    /\ UNCHANGED <<gasvars, valvars, sysvars, bindvars>>

HamtSetIfAbsent ==
    /\ HamtOpen
    /\ LET before == Contents(hamt, blockstore)
       IN \E k \in Keys, v \in Vals :
            LET r == Hamt_set_if_absent(hamt, blockstore, k, v)
            IN /\ hamt' = r.hamt
               /\ hlast' = HamtOp("set_if_absent", k, v, r.result, before)
               /\ hmap' = IF hmap[k].some THEN hmap ELSE [hmap EXCEPT ![k] = Some(v)]
    /\ hflush' = AfterOp
    /\ UNCHANGED <<blockstore, loaded>>
    /\ UNCHANGED <<gasvars, valvars, sysvars, bindvars>>

HamtDelete ==
    /\ HamtOpen
    /\ LET before == Contents(hamt, blockstore)
       IN \E k \in Keys :
            LET r == Hamt_delete(hamt, blockstore, k)
            IN /\ hamt' = r.hamt
               /\ hlast' = HamtOp("delete", k, 0, r.result, before)
               /\ hmap' = [hmap EXCEPT ![k] = None]
    /\ hflush' = AfterOp
    /\ UNCHANGED <<blockstore, loaded>>
    /\ UNCHANGED <<gasvars, valvars, sysvars, bindvars>>

HamtFlush ==
    /\ HamtOpen
    /\ LET r == Hamt_flush(hamt, blockstore)
           before == Contents(hamt, blockstore)
       IN /\ hamt' = r.hamt
          /\ blockstore' = r.store
          /\ hflush' = [count |-> hflush.count + 1, after |-> AfterOp.after,
                        cid |-> r.cid, hamt |-> r.hamt, map |-> hmap]
          /\ hlast' = HamtOp("flush", 0, 0, r.cid, before)
    /\ UNCHANGED <<hmap, loaded>>
    /\ UNCHANGED <<gasvars, valvars, sysvars, bindvars>>

\* Hamt::set_root with one of the Cids above. On success the Hamt reads as
\* the map that was flushed under that Cid.
HamtSetRoot ==
    /\ ~loaded.done
    /\ hlast.op # "load"
    /\ LET before == Contents(hamt, blockstore)
       IN \E cid \in RootCids :
            LET r == Hamt_set_root(hamt, blockstore, cid)
            IN /\ hamt' = r.hamt
               /\ hlast' = [HamtOp("set_root", 0, 0, r.res, before) EXCEPT
                                !.cid = cid, !.root = hamt.root]
               /\ hmap' = IF r.res = "Ok" THEN RootMap(cid) ELSE hmap
    /\ UNCHANGED <<blockstore, hflush, loaded>>
    /\ UNCHANGED <<gasvars, valvars, sysvars, bindvars>>

\* Hamt::load_with_bit_width with one of the Cids above, from the same
\* blockstore: only what it returned is kept.
HamtLoadCid ==
    /\ ~loaded.done
    /\ hlast.op # "load"
    /\ LET before == Contents(hamt, blockstore)
       IN \E cid \in RootCids :
            LET r == Hamt_load_with_bit_width(cid, blockstore, hamt.bit_width)
            IN hlast' = [HamtOp("load", 0, 0, r.res, before) EXCEPT !.cid = cid]
    /\ UNCHANGED <<hamt, blockstore, hmap, hflush, loaded>>
    /\ UNCHANGED <<gasvars, valvars, sysvars, bindvars>>

\* Hamt::load_with_bit_width of the Cid the last flush returned, from the
\* same blockstore, with the same bit width.
HamtLoad ==
    /\ hflush.count > 0
    /\ ~loaded.done
    /\ LET r == Hamt_load_with_bit_width(hflush.cid, blockstore, hflush.hamt.bit_width)
       IN loaded' = [done |-> TRUE, res |-> r.res, hamt |-> r.hamt,
                     flushed |-> hflush.hamt]
    /\ UNCHANGED <<hamt, blockstore, hmap, hlast, hflush>>
    /\ UNCHANGED <<gasvars, valvars, sysvars, bindvars>>

NextHamt ==
    \/ HamtSet
    \/ HamtSetIfAbsent
    \/ HamtDelete
    \/ HamtFlush
    \/ HamtSetRoot
    \/ HamtLoadCid
    \/ HamtLoad

SpecHamt == InitHamt /\ [][NextHamt]_vars

(***************************************************************************)
(* Properties of the gas checkpoints (SpecGas).                            *)
(***************************************************************************)
\* C1: every charge_for_exec charges the ledger exactly
\* max(0, last_milligas_available - register) (as an i64), never a negative
\* amount, and the execution gas charged in total is the sum of those deltas.
C1_ChargeIsDeltaSaturatedAtZero ==
    /\ cp.done =>
         /\ cp.charged = Saturate(Max(0, cp.last - cp.register))
         /\ cp.charged >= 0
    /\ exec_charged = delta_sum

\* C2: from one state to the next the ledger's total never decreases, and it
\* never exceeds the gas limit.
C2_GasUsedMonotoneWithinLimit ==
    [][gas_used' >= gas_used /\ gas_used' <= gas_limit]_vars

\* C3: a charge_for_exec whose charge exceeds what is left of the budget
\* ends with Abort::OutOfGas (not Fatal), and the ledger's total is not below
\* what it was before that checkpoint.
C3_OutOfGasAbortKeepsCharges ==
    (cp.done /\ cp.charged > cp.remaining) =>
        /\ gabort = "OutOfGas"
        /\ gpc = "aborted"
        /\ gas_used >= cp.used_before

\* C3's case: a checkpoint ran out of gas after an earlier one had charged.
C3_Witness ==
    /\ cp.done
    /\ cp.charged > cp.remaining
    /\ cp.used_before > 0
    /\ ncheckpoints = 2

\* C12: right after update_gas_available has returned Ok, the register and
\* last_milligas_available both hold the ledger's gas_available (milligas)
\* of that moment, and the ledger's total is what it was before the call.
C12_UpdateSetsRegisterAndShadow ==
    (upd.fresh /\ upd.ok) =>
        /\ avail_gas_global = upd.avail
        /\ last_milligas_available = upd.avail
        /\ upd.avail = gas_available(gas_limit, gas_used)
        /\ gas_used = upd.used_before
        /\ gabort = "None"

\* C12's case: the update follows a checkpoint that charged the ledger, so
\* the value written is below the limit, and it replaces a different shadow.
C12_Witness ==
    /\ upd.fresh
    /\ upd.ok
    /\ cp.done
    /\ gas_used > 0
    /\ upd.avail < gas_limit
    /\ cp.register # upd.avail

(***************************************************************************)
(* Properties of validate_message (SpecValidate).                          *)
(***************************************************************************)
\* C4: when the function run inside with_transaction ends with a reverting
\* exit code or an execution error, the caller sees the state as it was
\* before the scope was opened, and the gas charged inside the scope is
\* what finish reports; when it succeeds the caller sees its mutations.
C4_ScopeRollsBackStateNotGas ==
    (vpc = "done" /\ vghost.opened) =>
        /\ with_transaction_reverts(invoke_result) => state = vghost.pre_state
        /\ ~with_transaction_reverts(invoke_result) => state = vghost.inner_state
        /\ fin.done /\ fin.gas_used = vghost.tx_charged

\* C4's case: the scope mutated the state, charged gas and was rolled back.
C4_Witness ==
    /\ vpc = "done"
    /\ vghost.opened
    /\ invoke_result.tag = "Failure"
    /\ ~is_success(invoke_result.code)
    /\ vghost.inner_state # vghost.pre_state
    /\ vghost.tx_charged > 0

\* C5: a validate_message that invoked the validation entrypoint ends with
\* an empty backtrace (no failure info) if it succeeds and with a non-empty
\* one if it fails, whether the failure is a failing exit code, an execution
\* error or a return value that does not decode.
C5_BacktraceEmptyIffSuccess ==
    (vpc = "done" /\ vghost.opened) =>
        /\ ret.tag = "Ok" => (v_backtrace = <<>> /\ ~failure_info.some)
        /\ ret.tag = "Err" => (v_backtrace # <<>> /\ failure_info.some)

\* C6: when the validation entrypoint returns success with the encoding of a
\* GasSpec, validate_message returns that GasSpec and its backtrace is empty.
C6_WellFormedReturnGivesGasSpec ==
    \A g \in GasSpecs :
        (vpc = "done" /\ invoke_result = Return(SomeBlock(marshal_cbor(g)))) =>
            /\ ret = RetOk(g)
            /\ v_backtrace = <<>>
            /\ ~failure_info.some

\* C6's case: success, after a nested failure that was handled had added a
\* frame to the Call Manager's backtrace.
C6_Witness ==
    /\ vpc = "done"
    /\ ret.tag = "Ok"
    /\ ret.value.gas_limit # ret.value.gas_premium
    /\ fin.backtrace # <<>>

\* What the caller of validate_message can read of a backtrace in the value
\* it is returned.
ReturnedBacktrace(r) ==
    IF "backtrace" \in DOMAIN r THEN r.backtrace ELSE <<>>

\* C7: when the validation entrypoint ends with a non-success exit code,
\* validate_message fails and the failure it returns carries the backtrace
\* the Call Manager accumulated.
C7_FailureSurfacesBacktrace ==
    (vpc = "done" /\ invoke_result.tag = "Failure"
                  /\ ~is_success(invoke_result.code)) =>
        /\ ret.tag = "Err"
        /\ fin.backtrace # <<>>
        /\ ReturnedBacktrace(ret) = fin.backtrace

\* The values validate_message returns for a validation failure.
ValidationFailureReturns ==
    {RetErr("actor failed to validate with TODO"),
     RetErr("failed to unmarshall return data from validate")}

\* C8: the value returned for a fatal host error (a failed state-tree
\* lookup, a Call Manager fault) is never one of the values returned for a
\* validation failure, so the caller can tell them apart.
C8_ValidationFailureDistinctFromFatal ==
    (vpc = "done" /\ (vpath = "lookup_failed" \/ invoke_result = ExecErr("Fatal"))) =>
        ret \notin ValidationFailureReturns

\* C13: when the sender's address resolves to no actor id, validate_message
\* has returned its sender-not-found error without opening a Call Manager:
\* the validation entrypoint was not invoked, nothing was charged or
\* finished, and the machine state is the one it was called with.
C13_AbsentSenderFailsBeforeCallManager ==
    (vghost.lookup = "None") =>
        /\ vpc = "done"
        /\ ret = RetErr("TODO")
        /\ vghost.cm_opened = 0
        /\ vghost.validate_calls = 0
        /\ vghost.finish_calls = 0
        /\ ~vghost.opened
        /\ invoke_result = NoResult
        /\ tx_stack = <<>>
        /\ gas_used = 0
        /\ vghost.tx_charged = 0
        /\ fin = NoFinish
        /\ state = vghost.pre_state

\* C13's case: validate_message was called on a non-initial state with a
\* sender that does not resolve.
C13_Witness ==
    /\ vghost.lookup = "None"
    /\ vpath = "sender_not_found"
    /\ vghost.pre_state = MaxState

(***************************************************************************)
(* Properties of the syscall handlers (SpecSys).                           *)
(***************************************************************************)
\* C9: a syscall bound by bind_checked_syscalls that is made in a kernel
\* state the predicate is to reject (the original caller is not the actor
\* itself) does not run its handler, changes nothing in the kernel, and
\* ends as an abort of the frame, not as a crash of the host.
C9_RejectedCheckedCallAborts ==
    (sys.checked /\ ~sys.kernel_before.caller_is_self) =>
        /\ ~sys.handler_ran
        /\ sys.kernel_after = sys.kernel_before
        /\ sys.res = "Abort"
        /\ spc # "crashed"

BufferSyscalls ==
    {"debug.log", "debug.store_artifact", "rand.get_chain_randomness",
     "rand.get_beacon_randomness"}
DebugBufferSyscalls == {"debug.log", "debug.store_artifact"}

\* C10 as stated: a debug or randomness syscall with a buffer argument whose
\* offset+length exceeds the memory size fails with IllegalArgument and
\* leaves memory and kernel unmodified, debug enabled or not.
C10_OutOfRangeIsIllegalArgument ==
    (sys.name \in BufferSyscalls /\ ~sys.checked /\ sys.oob) =>
        /\ sys.res = "IllegalArgument"
        /\ sys.mem_after = sys.mem_before
        /\ sys.kernel_after = sys.kernel_before

\* C10 as amended: such a call leaves memory and kernel unmodified; it fails
\* with IllegalArgument, except that debug.log and debug.store_artifact
\* return success when debug is disabled.
C10_OutOfRangeIsIllegalArgumentUnlessDebugOff ==
    (sys.name \in BufferSyscalls /\ ~sys.checked /\ sys.oob) =>
        /\ sys.mem_after = sys.mem_before
        /\ sys.kernel_after = sys.kernel_before
        /\ IF sys.name \in DebugBufferSyscalls /\ ~sys.kernel_before.debug_enabled
           THEN sys.res = "Ok"
           ELSE sys.res = "IllegalArgument"

\* C10's case: debug.log with debug enabled and a message that starts inside
\* the memory and ends past it, after an earlier message was logged.
C10_Witness ==
    /\ sys.name = "debug.log"
    /\ ~sys.checked
    /\ sys.oob
    /\ sys.kernel_before.debug_enabled
    /\ sys.kernel_before.log # <<>>
    /\ sys.res = "IllegalArgument"

RandSyscalls == {"rand.get_chain_randomness", "rand.get_beacon_randomness"}

\* The kernel operation each randomness syscall is answered by.
RandSource(name) ==
    IF name = "rand.get_chain_randomness" THEN "tickets" ELSE "beacon"

\* C11: get_chain_randomness and get_beacon_randomness on success produce
\* exactly 32 bytes, the kernel's randomness for the tag, the round and the
\* entropy read from the memory; when they fail nothing is produced and the
\* memory is as before; when the entropy buffer is out of range they fail
\* and the kernel is not called.
C11_RandomnessIs32BytesOrNothing ==
    (sys.name \in RandSyscalls /\ ~sys.checked) =>
        LET pers  == sys.args[1]
            round == sys.args[2]
            off   == sys.args[3]
            len   == sys.args[4]
        IN /\ sys.res = "Ok" =>
                /\ Len(sys.value) = 32
                /\ sys.value = kernel_randomness(RandSource(sys.name), pers, round,
                                                 try_slice(sys.mem_before, off, len))
                /\ sys.kernel_after.rand_calls =
                       Append(sys.kernel_before.rand_calls, RandSource(sys.name))
           /\ sys.res # "Ok" =>
                /\ sys.value = <<>>
                /\ sys.mem_after = sys.mem_before
           /\ OutOfRange(sys.mem_before, off, len) =>
                /\ sys.res = "IllegalArgument"
                /\ sys.kernel_after = sys.kernel_before

\* C11's case: a chain randomness call that succeeds with a non-empty
\* entropy after an earlier randomness call.
C11_Witness ==
    /\ sys.name = "rand.get_chain_randomness"
    /\ sys.res = "Ok"
    /\ sys.args[4] > 0
    /\ sys.kernel_before.rand_calls # <<>>

\* C14: debug.log and debug.store_artifact, called with debug enabled and a
\* message (a name) that lies inside the memory and is not valid UTF-8,
\* return IllegalArgument as an ordinary result: the kernel's log and
\* store_artifact are not invoked and the host goes on running.
C14_InvalidUtf8IsIllegalArgument ==
    (/\ sys.name \in DebugBufferSyscalls
     /\ ~sys.checked
     /\ sys.kernel_before.debug_enabled
     /\ try_slice_ok(sys.mem_before, sys.args[1], sys.args[2])
     /\ ~from_utf8_ok(try_slice(sys.mem_before, sys.args[1], sys.args[2]))) =>
        /\ sys.res = "IllegalArgument"
        /\ sys.kernel_after = sys.kernel_before
        /\ sys.mem_after = sys.mem_before
        /\ spc = "running"

\* C14's case: store_artifact with a readable data buffer and a name that is
\* not UTF-8, after an artifact was stored.
C14_Witness ==
    /\ sys.name = "debug.store_artifact"
    /\ sys.kernel_before.debug_enabled
    /\ sys.kernel_before.artifacts # <<>>
    /\ try_slice_ok(sys.mem_before, sys.args[1], sys.args[2])
    /\ ~from_utf8_ok(try_slice(sys.mem_before, sys.args[1], sys.args[2]))
    /\ try_slice_ok(sys.mem_before, sys.args[3], sys.args[4])
    /\ sys.res = "IllegalArgument"

AbiSurface ==
    ({"debug"} \X {"log", "enabled", "store_artifact"})
    \cup ({"send"} \X {"send"})
    \cup ({"rand"} \X {"get_chain_randomness", "get_beacon_randomness"})
    \cup ({"gas"} \X {"charge"})
    \cup ({"ipld"} \X {"block_open", "block_create", "block_read", "block_stat",
                       "block_link"})
    \cup ({"actor"} \X {"resolve_address", "get_actor_code_cid",
                        "new_actor_address", "create_actor",
                        "get_builtin_actor_type", "get_code_cid_for_type",
                        "install_actor"})
    \cup ({"crypto"} \X {"verify_signature", "recover_secp_public_key", "hash",
                         "verify_seal", "verify_post",
                         "compute_unsealed_sector_cid", "verify_consensus_fault",
                         "verify_aggregate_seals", "verify_replica_update",
                         "batch_verify_seals"})
    \cup ({"network"} \X {"base_fee", "total_fil_circ_supply"})
    \cup ({"self"} \X {"root", "set_root", "current_balance", "self_destruct"})
    \cup ({"vm"} \X {"abort", "context"})

OptionalSyscalls == {<<"actor", "install_actor">>}

BoundNames(linker) == {<<d.module, d.name>> : d \in linker}

\* C16: once bind_syscalls has returned Ok, the linker has a host function
\* for every name of the ABI surface, every crypto function included;
\* actor.install_actor alone may be missing.
C16_FullSurfaceBindsWholeAbi ==
    (full_surface.res = "Ok") =>
        \A n \in AbiSurface \ OptionalSyscalls : n \in BoundNames(full_surface.linker)

\* What a surface binds, the predicate left aside.
Bindings(linker) ==
    {[module |-> d.module, name |-> d.name, handler |-> d.handler] : d \in linker}

\* C17: once both binding functions have returned, both have returned Ok,
\* the two linkers hold the same names with the same handlers, every bind
\* call of either defined a name of its own, and the surfaces differ in the
\* predicate only: none of the full surface's handlers is behind it, every
\* one of the checked surface's is.
C17_SurfacesBindTheSame ==
    (full_surface.res # "-" /\ checked_surface.res # "-") =>
        /\ full_surface.res = "Ok"
        /\ checked_surface.res = "Ok"
        /\ Bindings(full_surface.linker) = Bindings(checked_surface.linker)
        /\ Cardinality(BoundNames(full_surface.linker)) = full_surface.pc
        /\ Cardinality(BoundNames(checked_surface.linker)) = checked_surface.pc
        /\ full_surface.pc = Len(bind_syscalls_table(m2_native))
        /\ checked_surface.pc = Len(bind_checked_syscalls_table(m2_native))
        /\ \A d \in full_surface.linker : ~d.checked
        /\ \A d \in checked_surface.linker : d.checked

\* C17's case: both surfaces were built in a build that has install_actor.
C17_Witness ==
    /\ m2_native
    /\ full_surface.res = "Ok"
    /\ checked_surface.res = "Ok"
    /\ <<"actor", "install_actor">> \in BoundNames(checked_surface.linker)
    /\ Cardinality(full_surface.linker) > 0

(***************************************************************************)
(* Properties of the Hamt (SpecHamt).                                      *)
(***************************************************************************)
\* The finite map `before` after set(k, v) / after delete(k).
MapSet(m, k, v) == [m EXCEPT ![k] = Some(v)]
MapDelete(m, k) == [m EXCEPT ![k] = None]

\* C18: under any sequence of set and delete (and the other operations) the
\* Hamt reads as the finite map those operations define: get(k) is the value
\* of the latest set of k not deleted since, else None; set returns the
\* previous value and delete the removed entry (None if there was none, and
\* then nothing changes); contains_key agrees with get, is_empty holds
\* exactly when no key is present, and an operation on one key changes the
\* result of get for no other key.
C18_HamtIsFiniteMap ==
    /\ Contents(hamt, blockstore) = hmap
    /\ \A k \in Keys : Hamt_contains_key(hamt, blockstore, k) <=> hmap[k].some
    /\ Hamt_is_empty(hamt) <=> (\A k \in Keys : ~hmap[k].some)
    /\ hlast.op = "set" =>
         /\ hlast.result = hlast.before[hlast.key]
         /\ Contents(hamt, blockstore) = MapSet(hlast.before, hlast.key, hlast.val)
    /\ hlast.op = "delete" =>
         /\ hlast.result = IF hlast.before[hlast.key].some
                           THEN Entry(hlast.key, hlast.before[hlast.key].val)
                           ELSE NoEntry
         /\ Contents(hamt, blockstore) = MapDelete(hlast.before, hlast.key)

\* C18's case: a delete that takes a key out of a bucket that had split,
\* after which another key of it is still read.
C18_Witness ==
    /\ hlast.op = "delete"
    /\ hlast.result.some
    /\ Cardinality({k \in Keys : hlast.before[k].some}) > MAX_ARRAY_WIDTH
    /\ \E k \in Keys : Hamt_get(hamt, blockstore, k) = Some(2)

\* C19: set_if_absent(k, v) returns true exactly when k was absent, and then
\* k reads as v; when k was present it returns false and k keeps its value;
\* every other key reads as before in both cases.
C19_SetIfAbsentAddsOnlyWhenAbsent ==
    hlast.op = "set_if_absent" =>
        /\ hlast.result = ~hlast.before[hlast.key].some
        /\ Contents(hamt, blockstore) =
              IF hlast.before[hlast.key].some
              THEN hlast.before
              ELSE MapSet(hlast.before, hlast.key, hlast.val)

\* C19's cases: the key was present with another value, in a Hamt that
\* holds more keys than a bucket does.
C19_Witness ==
    /\ hlast.op = "set_if_absent"
    /\ hlast.result = FALSE
    /\ hlast.before[hlast.key].some
    /\ hlast.before[hlast.key].val # hlast.val
    /\ Cardinality({k \in Keys : hlast.before[k].some}) > MAX_ARRAY_WIDTH

\* C20: a Hamt loaded from the Cid flush returned, from the same blockstore and
\* with the same bit width, is equal to the flushed one and reads the same
\* for every key.
C20_FlushThenLoadIsEqual ==
    loaded.done =>
        /\ loaded.res = "Ok"
        /\ Hamt_eq(loaded.hamt, loaded.flushed)
        /\ Contents(loaded.hamt, blockstore) = Contents(loaded.flushed, blockstore)

\* C20's case: the flushed Hamt had a child node (a bucket had split), so
\* the root was stored with a link, and keys are read through it.
C20_Witness ==
    /\ loaded.done
    /\ loaded.res = "Ok"
    /\ \E i \in DOMAIN loaded.hamt.root : loaded.hamt.root[i].kind = "link"
    /\ Cardinality({k \in Keys : Hamt_get(loaded.hamt, blockstore, k).some})
          > MAX_ARRAY_WIDTH

(***************************************************************************)
(* Claims about the Call Manager's lifetime in validate_message.           *)
(***************************************************************************)
\* The position of a call that was made once in the calls so far.
CallIndex(calls, c) == CHOOSE i \in DOMAIN calls : calls[i] = c

\* C21: once the sender is resolved validate_message opens exactly one Call
\* Manager, and none before. While the message is running the Call Manager
\* holds the machine and has not been finished. On every exit after it was
\* opened (failed encoding, Return, Failure, execution error) finish was
\* called exactly once, as the last call on the Call Manager and after
\* with_transaction returned if it was entered, and the machine is back with
\* the executor. When the encoding fails the validation entrypoint and
\* with_transaction are never called.
C21_OneCallManagerFinishedOnce ==
    LET calls == vghost.calls IN
    /\ vghost.cm_opened = count_calls(calls, "new")
    /\ vghost.finish_calls = count_calls(calls, "finish")
    /\ vghost.cm_opened = (IF vghost.lookup = "Some" THEN 1 ELSE 0)
    /\ (vghost.cm_opened = 1 /\ vpc # "done") =>
          /\ vghost.finish_calls = 0
          /\ vghost.machine = "call_manager"
    /\ (vghost.cm_opened = 1 /\ vpc = "done") =>
          /\ vghost.finish_calls = 1
          /\ calls[1] = "new"
          /\ calls[Len(calls)] = "finish"
          /\ fin.done
          /\ tx_stack = <<>>
          /\ vghost.machine = "executor"
          /\ count_calls(calls, "with_transaction")
                = count_calls(calls, "with_transaction_returned")
          /\ count_calls(calls, "with_transaction") = vghost.validate_calls
          /\ count_calls(calls, "with_transaction") = 1 =>
                /\ CallIndex(calls, "with_transaction")
                      < CallIndex(calls, "with_transaction_returned")
                /\ CallIndex(calls, "with_transaction_returned")
                      < CallIndex(calls, "finish")
          /\ vghost.validate_calls = (IF vpath = "params_failed" THEN 0 ELSE 1)
          /\ vpath = "params_failed" => invoke_result = NoResult
    /\ vghost.cm_opened = 0 => vghost.machine = "executor" /\ ~fin.done

\* C21's case: the scope was left by an execution error after a nested call
\* had aborted, and validate_message has returned.
C21_Witness ==
    /\ vpc = "done"
    /\ invoke_result.tag = "Err"
    /\ backtrace # <<>>
    /\ vghost.cm_opened = 1
    /\ vghost.finish_calls = 1
    /\ vghost.machine = "executor"

(***************************************************************************)
(* Claims about consecutive gas checkpoints.                               *)
(***************************************************************************)
\* C22: right after charge_for_exec the shadow last_milligas_available equals
\* the register, whether the ledger accepted the charge or not. A
\* charge_for_exec that directly follows another one (no sandbox write and no
\* update in between) charges zero and succeeds, so the two together charge
\* what the first one did: the difference the first one saw.
C22_ShadowFollowsRegisterAtCheckpoint ==
    (cp.done /\ cp.fresh) =>
        /\ last_milligas_available = avail_gas_global
        /\ last_milligas_available = cp.register
        /\ cp.consecutive =>
              /\ cp.charged = 0
              /\ cp.res = "Ok"
              /\ gas_used = cp.used_before
              /\ cp.last = cp.register
              /\ cp.prev_charged + cp.charged
                    = milligas_used(cp.prev_last, cp.register)

\* C22's case: two checkpoints in a row, the first of which charged the
\* ledger for what the sandbox had used.
C22_Witness ==
    /\ cp.done
    /\ cp.fresh
    /\ cp.consecutive
    /\ cp.prev_charged > 0
    /\ gas_used > 0

(***************************************************************************)
(* Claims about the debug syscalls while debug is disabled.                *)
(***************************************************************************)
DebugNoOpSyscalls == {"debug.log", "debug.store_artifact"}

\* C23: called directly (not through the checked surface) while the kernel
\* has debug disabled, debug.log and debug.store_artifact return success
\* whatever their offsets and lengths are, slice no sandbox memory, and leave
\* the kernel (its log and its artifacts) and the memory as they were.
\* debug.enabled returns 0 when debug is enabled and -1 otherwise, slices no
\* memory, and leaves kernel and memory as they were.
C23_DisabledDebugIsNoOp ==
    /\ (/\ sys.name \in DebugNoOpSyscalls
        /\ ~sys.checked
        /\ ~sys.kernel_before.debug_enabled) =>
           /\ sys.res = "Ok"
           /\ sys.value = <<>>
           /\ sys.handler_ran
           /\ sys.debug_reads = <<>>
           /\ sys.kernel_after = sys.kernel_before
           /\ sys.kernel_after.log = sys.kernel_before.log
           /\ sys.kernel_after.artifacts = sys.kernel_before.artifacts
           /\ sys.mem_after = sys.mem_before
    /\ (sys.name = "debug.enabled" /\ ~sys.checked) =>
           /\ sys.res = "Ok"
           /\ sys.value = (IF sys.kernel_before.debug_enabled
                           THEN <<0>> ELSE <<-1>>)
           /\ sys.debug_reads = <<>>
           /\ sys.kernel_after = sys.kernel_before
           /\ sys.mem_after = sys.mem_before

\* C23's case: with debug disabled, debug.store_artifact was called with a
\* name that lies past the end of a memory holding no UTF-8 text, after
\* another syscall had been made.
C23_Witness ==
    /\ sys.name = "debug.store_artifact"
    /\ ~sys.checked
    /\ ~sys.kernel_before.debug_enabled
    /\ sys.oob
    /\ sys.args[1] > MemSize
    /\ \A i \in DOMAIN sys.mem_before : sys.mem_before[i] = 255
    /\ sys.res = "Ok"
    /\ ncalls = 2

(***************************************************************************)
(* Claims about a Failure that carries the success code.                   *)
(***************************************************************************)
\* C24: when the Call Manager reports the validation invocation as a Failure
\* whose exit code is the success code, validate_message returns the error
\* "actor failed with status OK" and no GasSpec. Whenever validate_message
\* returns a GasSpec, the invocation result was a Return, and the GasSpec is
\* the one its block decodes to.
C24_FailureWithStatusOkIsAnError ==
    /\ (vpc = "done" /\ invoke_result.tag = "Failure"
                     /\ is_success(invoke_result.code)) =>
           /\ ret = RetErr("actor failed with status OK")
           /\ ret.value = NoGasSpec
           /\ vpath = "status_ok"
    /\ ret.tag = "Ok" =>
           /\ vpc = "done"
           /\ invoke_result.tag = "Return"
           /\ ret.value \in GasSpecs
           /\ invoke_result.data = SomeBlock(marshal_cbor(ret.value))

\* C24's case: the invocation wrote the state, then was reported as a Failure
\* with the success code, and validate_message has returned.
C24_Witness ==
    /\ vpc = "done"
    /\ invoke_result = Failure(ExitOK)
    /\ ret.tag = "Err"
    /\ vghost.inner_state # vghost.pre_state
    /\ gas_used > 0

(***************************************************************************)
(* Claims about a root Cid the store does not hold.                        *)
(***************************************************************************)
\* C25: set_root and load return CidNotFound exactly when the store holds
\* no block under the Cid they are given. After a set_root that failed so,
\* the Hamt's root is the one it had before the call, and get returns for
\* every key what it returned before.
C25_MissingRootCidIsCidNotFound ==
    /\ hlast.op \in {"set_root", "load"} =>
          /\ hlast.cid \notin blockstore => hlast.result = "CidNotFound"
          /\ hlast.cid \in blockstore => hlast.result = "Ok"
    /\ (hlast.op = "set_root" /\ hlast.result = "CidNotFound") =>
          /\ hamt.root = hlast.root
          /\ \A k \in Keys : Hamt_get(hamt, blockstore, k) = hlast.before[k]

\* C25's case: a Hamt holding more keys than a bucket does was flushed, so
\* the store holds its blocks, and is then given the Cid of an empty root,
\* which was never stored.
C25_Witness ==
    /\ hlast.op = "set_root"
    /\ hlast.result = "CidNotFound"
    /\ hflush.count > 0
    /\ blockstore # {}
    /\ Cardinality({k \in Keys : hlast.before[k].some}) > MAX_ARRAY_WIDTH

====
